---- MODULE Spec2Model ----
(***************************************************************************)
(* Ensemble playback engine (playback.js: SampleCache, PlaybackEngine)     *)
(* together with the parts of the application (app.js) that drive it:      *)
(* the transport/seek handlers that call play() and stop(), the note       *)
(* polling that appends to the shared note list, and the browser's         *)
(* animation-frame and promise scheduling.                                 *)
(*                                                                         *)
(* Time is counted in centiseconds (1 s = 100), so that 60/tempo and       *)
(* SCHEDULE_AHEAD = 0.12 s are integers for the tempos used here.          *)
(***************************************************************************)
EXTENDS Integers, Sequences, FiniteSets, TLC

\* ------------------------------------------------------------------------
\* Bounds of the model
\* ------------------------------------------------------------------------
\* play() invocations made in one behaviour
MaxPlays == 2
\* advances of the audio clock in one behaviour
MaxClockSteps == 2
\* notes merged into the shared list by the polling in one behaviour
MaxAppend == 1
\* one step of the audio clock between two events, in centiseconds
ClockStep == 40
\* measures of the scores the signature resolver is run on
MaxSigMeasure == 5
\* overrides in the measureSignatures list of those scores
MaxOverrides == 2
\* rows the notes table of the server holds at most
MaxNoteRows == 3
\* rows of measure_signatures beyond total_measures
MaxExtraRows == 1
\* polling intervals the wall clock runs for
MaxWallSteps == 3

\* ------------------------------------------------------------------------
\* Program constants
\* ------------------------------------------------------------------------
\* const SCHEDULE_AHEAD = 0.12 seconds, in centiseconds
SCHEDULE_AHEAD == 12

\* a pitch "C#4" is the triple of its letter, accidental and octave digit
Pitch(letter, acc, oct) == <<letter, acc, oct>>

INST_TO_SOUNDFONT(inst) ==
    CASE inst = "violin1" -> "violin"
      [] inst = "violin2" -> "violin"
      [] inst = "viola" -> "viola"
      [] inst = "cello" -> "cello"
      [] inst = "contrabass" -> "contrabass"
      [] OTHER -> "violin"

SHARP_TO_FLAT(letter) ==
    CASE letter = "C" -> "D"
      [] letter = "D" -> "E"
      [] letter = "F" -> "G"
      [] letter = "G" -> "A"
      [] letter = "A" -> "B"
      [] OTHER -> ""

\* fault variant of pitchToSampleKey: the pitch keeps its spelling
pitchToSampleKey_KeepsSpelling(pitch) == pitch

\* soundfont sample names are spelled with flats
pitchToSampleKey(pitch) ==
    IF pitch[2] = "#" /\ SHARP_TO_FLAT(pitch[1]) # ""
    THEN <<SHARP_TO_FLAT(pitch[1]), "b", pitch[3]>>
    ELSE pitch

\* `${sfInst}:${sampleKey}`
cacheKeyOf(n) == <<INST_TO_SOUNDFONT(n.instrument_id), pitchToSampleKey(n.pitch)>>

\* ------------------------------------------------------------------------
\* The score snapshot handed to play(): scoreData = {score, notes,
\* measureSignatures}.  The note list is shared with the application and
\* grows while the engine runs; the rest is fixed.
\* ------------------------------------------------------------------------
\* note.beat (1-based, REAL) is kept in half beats: beat 2.5 is Beat(2, 1)
Beat(whole, halves) == 2 * whole + halves

\* (note.beat - 1) * secPerBeat
beatOffset(note, secPerBeat) == ((note.beat - Beat(1, 0)) * secPerBeat) \div 2

Note(id, inst, pitch, rest, measure, vib) ==
    [id |-> id, instrument_id |-> inst, pitch |-> pitch, is_rest |-> rest,
     measure |-> measure, beat |-> Beat(1, 0), duration |-> "quarter",
     vibrato |-> vib]

\* the same note at another beat of its measure
AtBeat(note, beat) == [note EXCEPT !.beat = beat]

\* the same note with another duration, with or without vibrato
Lasting(note, duration, vib) ==
    [note EXCEPT !.duration = duration, !.vibrato = vib]

\* the notes of the score when it is fetched
BaseNotes ==
    << Note(1, "violin1", Pitch("C", "#", 4), FALSE, 1, 1),
       Note(2, "violin1", Pitch("B", "", 4), TRUE, 1, 0),
       Note(3, "cello", Pitch("D", "", 3), FALSE, 2, 0) >>

\* notes other contributors add, delivered by the polling
RemoteNotes ==
    { Note(5, "violin2", Pitch("D", "b", 4), FALSE, 2, 0) }

\* score: 300 BPM, 1/4; measure 2 onwards is in 2/4 (tempo inherited)
Score == [tempo |-> 300, time_signature |-> <<1, 4>>, key_signature |-> "C",
          total_measures |-> 2]

MeasureSignatures ==
    << [measure |-> 2, key_signature |-> "", time_signature |-> <<2, 4>>, tempo |-> 0] >>

Measures == 1..Score.total_measures

VARIABLES
    \* scoreData without its notes, as fetched from /api/score: the score row
    \* and the measureSignatures list (a field that may be missing)
    scoreMeta,
    \* the last call of getEffectiveSignature made on its own: the measure
    \* asked for and the triple returned
    resolved

\* scoreData = {score, notes, measureSignatures}
ScoreData(noteList) ==
    [k \in DOMAIN scoreMeta \cup {"notes"} |->
        IF k = "notes" THEN noteList ELSE scoreMeta[k]]

\* fault variant of sigWalk: an override counts only from the measure after it
RECURSIVE sigWalk_FromNextMeasure(_, _, _)
sigWalk_FromNextMeasure(sigs, measure, acc) ==
    IF sigs = <<>> THEN acc
    ELSE LET s == Head(sigs)
             a == IF s.measure < measure
                  THEN [key |-> IF s.key_signature # "" THEN s.key_signature ELSE acc.key,
                        time |-> IF s.time_signature # <<>> THEN s.time_signature ELSE acc.time,
                        tempo |-> IF s.tempo # 0 THEN s.tempo ELSE acc.tempo]
                  ELSE acc
         IN  sigWalk_FromNextMeasure(Tail(sigs), measure, a)

\* fault variant of sigWalk: an override without a tempo is skipped
RECURSIVE sigWalk_NeedsTempo(_, _, _)
sigWalk_NeedsTempo(sigs, measure, acc) ==
    IF sigs = <<>> THEN acc
    ELSE LET s == Head(sigs)
             a == IF s.measure <= measure /\ s.tempo # 0
                  THEN [key |-> IF s.key_signature # "" THEN s.key_signature ELSE acc.key,
                        time |-> IF s.time_signature # <<>> THEN s.time_signature ELSE acc.time,
                        tempo |-> s.tempo]
                  ELSE acc
         IN  sigWalk_NeedsTempo(Tail(sigs), measure, a)

\* the loop of getEffectiveSignature over the overrides
RECURSIVE sigWalk(_, _, _)
sigWalk(sigs, measure, acc) ==
    IF sigs = <<>> THEN acc
    ELSE LET s == Head(sigs)
             a == IF s.measure <= measure
                  THEN [key |-> IF s.key_signature # "" THEN s.key_signature ELSE acc.key,
                        time |-> IF s.time_signature # <<>> THEN s.time_signature ELSE acc.time,
                        tempo |-> IF s.tempo # 0 THEN s.tempo ELSE acc.tempo]
                  ELSE acc
         IN  sigWalk(Tail(sigs), measure, a)

\* no call of getEffectiveSignature on its own was made yet
NotResolved == [measure |-> 0, sig |-> [key |-> "", time |-> <<>>, tempo |-> 0]]

\* fault variant of getEffectiveSignature: the tempo starts out unset
\* instead of at the tempo of the score
getEffectiveSignature_TempoUnset(measure, scoreData) ==
    sigWalk(IF "measureSignatures" \in DOMAIN scoreData
            THEN scoreData.measureSignatures ELSE <<>>,
            measure,
            [key |-> scoreData.score.key_signature,
             time |-> scoreData.score.time_signature,
             tempo |-> 0])

getEffectiveSignature(measure, scoreData) ==
    sigWalk(IF "measureSignatures" \in DOMAIN scoreData
            THEN scoreData.measureSignatures ELSE <<>>,   \* ... || []
            measure,
            [key |-> scoreData.score.key_signature,
             time |-> scoreData.score.time_signature,
             tempo |-> scoreData.score.tempo])

AllNotes == {BaseNotes[i] : i \in DOMAIN BaseNotes} \cup RemoteNotes
Keys == {cacheKeyOf(n) : n \in AllNotes}
\* the instruments whose mute and solo buttons are used
Instruments == {"cello"}


Range(seq) == {seq[i] : i \in DOMAIN seq}

\* ------------------------------------------------------------------------
\* State
\* ------------------------------------------------------------------------
VARIABLES
    \* scoreData.notes, the list shared by the application and the engine
    notes,
    \* PlaybackEngine fields
    playing, loading, startTime, startMeasure, scheduledNodes,
    mutedInstruments, soloInstrument, animFrame,
    lastPlayMeasure, measureStartTimes, measureSecPerBeat, totalDuration,
    \* SampleCache fields: _cache (set of keys), _pending (key -> load, 0 = absent)
    cache, pending,
    \* environment: running fetch-and-decode loads <<key, play() that issued
    \* the fetch>>, the keys a fetch was ever issued for, registered animation
    \* frames, audio nodes started and not yet stopped, audioCtx.currentTime
    loads, fetched, frames, liveNodes, now,
    \* play() invocations suspended at `await preload`, in the order of the
    \* calls, and the number of calls made so far
    plays, playCount,
    \* TRUE while the task that made the last call of the application is still
    \* running, i.e. until the next promise job or task starts
    inCall,
    \* what the last handler did: its name and arguments, the callbacks it
    \* delivered in order, the number of node.stop() calls it made
    last,
    \* server.js: the rows of the tables notes (id and session_id) and
    \* measure_signatures, and the answer to the last request
    notes_table, measure_signatures, response,
    \* app.js: lastFetchTime (<<>> is null), and the wall clock that
    \* new Date() in the browser and datetime('now') on the server read
    lastFetchTime, wallClock

vars == <<notes, playing, loading, startTime, startMeasure, scheduledNodes,
          mutedInstruments, soloInstrument, animFrame, lastPlayMeasure,
          measureStartTimes, measureSecPerBeat, totalDuration,
          cache, pending, loads, fetched, frames, liveNodes, now,
          plays, playCount, inCall, last, scoreMeta, resolved,
          notes_table, measure_signatures, response, lastFetchTime, wallClock>>

pollVars == <<lastFetchTime, wallClock>>

\* The mutable world the engine's methods read and write, as one record.
\* out and stops collect the effects of the handler that is running, seen
\* what the engine looked like to the {stopped: true} hook calls it made,
\* seconds the values of cumTime (the start of each measure of the span, and
\* after the last one the total) as the doubles the handler computed,
\* fetches the cache keys the handler called fetch for, in order.
\* fetchThrows tells how fetch behaves during the handler: whether it throws
\* when called instead of returning a promise.
World ==
    [playing |-> playing, loading |-> loading, startTime |-> startTime,
     startMeasure |-> startMeasure, scheduledNodes |-> scheduledNodes,
     mutedInstruments |-> mutedInstruments, soloInstrument |-> soloInstrument,
     animFrame |-> animFrame, lastPlayMeasure |-> lastPlayMeasure,
     measureStartTimes |-> measureStartTimes,
     measureSecPerBeat |-> measureSecPerBeat, totalDuration |-> totalDuration,
     cache |-> cache, pending |-> pending, loads |-> loads,
     fetched |-> fetched, frames |-> frames, liveNodes |-> liveNodes,
     now |-> now, out |-> <<>>, stops |-> 0, kinds |-> {}, graphs |-> 0,
     seen |-> {}, seconds |-> <<>>, fetches |-> <<>>, fetchThrows |-> FALSE]

Commit(w) ==
    /\ playing' = w.playing
    /\ loading' = w.loading
    /\ startTime' = w.startTime
    /\ startMeasure' = w.startMeasure
    /\ scheduledNodes' = w.scheduledNodes
    /\ mutedInstruments' = w.mutedInstruments
    /\ soloInstrument' = w.soloInstrument
    /\ animFrame' = w.animFrame
    /\ lastPlayMeasure' = w.lastPlayMeasure
    /\ measureStartTimes' = w.measureStartTimes
    /\ measureSecPerBeat' = w.measureSecPerBeat
    /\ totalDuration' = w.totalDuration
    /\ cache' = w.cache
    /\ pending' = w.pending
    /\ loads' = w.loads
    /\ fetched' = w.fetched
    /\ frames' = w.frames
    /\ liveNodes' = w.liveNodes
    /\ now' = w.now
    /\ UNCHANGED <<scoreMeta, resolved, notes_table, measure_signatures, response,
                   pollVars>>

\* ------------------------------------------------------------------------
\* Callbacks delivered to the application
\* ------------------------------------------------------------------------
MeasureEvent(m) ==
    [cb |-> "onMeasureChange", measure |-> m, num |-> 0, den |-> 1, stopped |-> FALSE]

TickEvent(m, num, den) ==
    [cb |-> "onPlaybackTick", measure |-> m, num |-> num, den |-> den, stopped |-> FALSE]

StoppedEvent ==
    [cb |-> "onPlaybackTick", measure |-> 0, num |-> 0, den |-> 1, stopped |-> TRUE]

\* ------------------------------------------------------------------------
\* SampleCache
\* ------------------------------------------------------------------------
\* fault variant of _load: the _pending lookup is missing, every call fetches
_load_NoPendingLookup(w, cacheKey, session) ==
    [w |-> [w EXCEPT !.loads = @ \cup {<<cacheKey, session>>},
                     !.fetched = @ \cup {cacheKey},
                     !.fetches = Append(@, cacheKey),
                     !.pending[cacheKey] = session],
     job |-> <<cacheKey, session>>]

\* _load, called on behalf of play() invocation `session`: returns the load
\* the caller has to await.  The async body runs up to its first await
\* inside the call: when fetch throws there, catch and finally (the delete
\* from _pending) run before _pending.set, and the promise returned is
\* already settled.
_load(w, cacheKey, session) ==
    IF w.pending[cacheKey] # 0
    THEN [w |-> w, job |-> <<cacheKey, w.pending[cacheKey]>>]
    ELSE IF w.fetchThrows
    THEN [w |-> [w EXCEPT !.fetched = @ \cup {cacheKey},
                          !.fetches = Append(@, cacheKey),
                          !.pending[cacheKey] = session],
          job |-> <<cacheKey, session>>]
    ELSE [w |-> [w EXCEPT !.loads = @ \cup {<<cacheKey, session>>},
                          !.fetched = @ \cup {cacheKey},
                          !.fetches = Append(@, cacheKey),
                          !.pending[cacheKey] = session],
          job |-> <<cacheKey, session>>]

\* fault variant of preloadLoop: keys already in the cache are loaded again
RECURSIVE preloadLoop_NoCacheCheck(_, _, _, _, _)
preloadLoop_NoCacheCheck(w, list, seen, jobs, session) ==
    IF list = <<>> THEN [w |-> w, jobs |-> jobs]
    ELSE LET n == Head(list)
             cacheKey == cacheKeyOf(n)
         IN  IF n.is_rest
             THEN preloadLoop_NoCacheCheck(w, Tail(list), seen, jobs, session)
             ELSE IF cacheKey \in seen
                  THEN preloadLoop_NoCacheCheck(w, Tail(list), seen, jobs, session)
                  ELSE LET r == _load(w, cacheKey, session)
                       IN  preloadLoop_NoCacheCheck(r.w, Tail(list),
                               seen \cup {cacheKey}, jobs \cup {r.job}, session)

\* the loop of preload over the notes of the batch
RECURSIVE preloadLoop(_, _, _, _, _)
preloadLoop(w, list, seen, jobs, session) ==
    IF list = <<>> THEN [w |-> w, jobs |-> jobs]
    ELSE LET n == Head(list)
             cacheKey == cacheKeyOf(n)
         IN  IF n.is_rest THEN preloadLoop(w, Tail(list), seen, jobs, session)
             ELSE IF cacheKey \in seen \/ cacheKey \in w.cache
                  THEN preloadLoop(w, Tail(list), seen, jobs, session)
                  ELSE LET r == _load(w, cacheKey, session)
                       IN  preloadLoop(r.w, Tail(list), seen \cup {cacheKey},
                                       jobs \cup {r.job}, session)

\* preload: starts or joins the loads of the batch; the caller then awaits
\* Promise.all(jobs)
preload(w, list, session) == preloadLoop(w, list, {}, {}, session)

\* the async body of _load settles: fetch, arrayBuffer and decodeAudioData
\* succeeded (ok) or one of them threw; finally the key leaves _pending
loadSettle(w, job, ok) ==
    [w EXCEPT !.cache = IF ok THEN @ \cup {job[1]} ELSE @,
              !.pending[job[1]] = 0,
              !.loads = @ \ {job}]

\* SampleCache.get
get(w, note) == cacheKeyOf(note) \in w.cache

\* ------------------------------------------------------------------------
\* PlaybackEngine
\* ------------------------------------------------------------------------
\* what a hook called by stop() finds: the playing flag, and how many of the
\* nodes stop() has to stop are still sounding
Seen(w, nodes) ==
    [playing |-> w.playing,
     sounding |-> Cardinality(w.liveNodes \cap Range(nodes))]

\* fault variant of stop: the list of scheduled nodes is not replaced
stop_ListKept(w) ==
    [w EXCEPT !.playing = FALSE,
              !.loading = FALSE,
              !.liveNodes = @ \ Range(w.scheduledNodes),
              !.stops = @ + Len(w.scheduledNodes),
              !.kinds = @ \cup {n.kind : n \in Range(w.scheduledNodes)},
              !.frames = IF w.animFrame # 0
                         THEN {f \in @ : f.id # w.animFrame} ELSE @,
              !.animFrame = 0,
              !.out = Append(@, StoppedEvent),
              !.seen = @ \cup {[playing |-> FALSE, sounding |-> 0]}]

\* fault variant of stop: the hook is called first, before the flags are
\* cleared and the nodes stopped
stop_NotifiesFirst(w) ==
    [w EXCEPT !.playing = FALSE,
              !.loading = FALSE,
              !.liveNodes = @ \ Range(w.scheduledNodes),
              !.stops = @ + Len(w.scheduledNodes),
              !.kinds = @ \cup {n.kind : n \in Range(w.scheduledNodes)},
              !.scheduledNodes = <<>>,
              !.frames = IF w.animFrame # 0
                         THEN {f \in @ : f.id # w.animFrame} ELSE @,
              !.animFrame = 0,
              !.out = Append(@, StoppedEvent),
              !.seen = @ \cup {Seen(w, w.scheduledNodes)}]

\* stop(): both hooks are installed by the application before any call
stop(w) ==
    LET w1 == [w EXCEPT !.playing = FALSE,
                        !.loading = FALSE,
                        !.liveNodes = @ \ Range(w.scheduledNodes),
                        !.stops = @ + Len(w.scheduledNodes),
                        !.kinds = @ \cup {n.kind : n \in Range(w.scheduledNodes)},
                        !.scheduledNodes = <<>>,
                        !.frames = IF w.animFrame # 0
                                   THEN {f \in @ : f.id # w.animFrame} ELSE @,
                        !.animFrame = 0]
    IN  [w1 EXCEPT !.out = Append(@, StoppedEvent),
                   !.seen = @ \cup {Seen(w1, w.scheduledNodes)}]

toggleMute(w, instrumentId) ==
    [w EXCEPT !.mutedInstruments =
        IF instrumentId \in @ THEN @ \ {instrumentId} ELSE @ \cup {instrumentId}]

toggleSolo(w, instrumentId) ==
    [w EXCEPT !.soloInstrument = IF @ = instrumentId THEN "" ELSE instrumentId]

\* 60 / tempo seconds, in centiseconds (exact for the tempos of Score)
secPerBeatOf(m, scoreData) ==
    LET mSig == getEffectiveSignature(m, scoreData)
        mTempo == IF mSig.tempo # 0 THEN mSig.tempo ELSE scoreData.score.tempo
    IN  6000 \div mTempo

beatsOf(m, scoreData) == getEffectiveSignature(m, scoreData).time[1]

\* the last measure at or after fromMeasure that holds a non-rest note
lastNotesMeasureOf(noteList, fromMeasure) ==
    LET ms == {noteList[i].measure : i \in {j \in DOMAIN noteList :
                    /\ ~noteList[j].is_rest
                    /\ noteList[j].measure >= fromMeasure}}
    IN  IF ms = {} THEN fromMeasure
        ELSE CHOOSE m \in ms : \A k \in ms : k <= m

\* ------------------------------------------------------------------------
\* JavaScript numbers.  The engine variables keep times in centiseconds,
\* in exact arithmetic.  Where the rounding of the IEEE 754 doubles the code
\* computes with matters, a double x with 1/8 <= x < 16 (or x = 0) is the
\* exact integer x * 2^56, kept in two words: x * 2^56 = hi * 2^30 + lo.
\* ------------------------------------------------------------------------
Word == 2^30

Dbl(hi, lo) == [hi |-> hi + lo \div Word, lo |-> lo % Word]

\* the number of bits of n < 2^31
BitLength(n) == IF n = 0 THEN 0 ELSE CHOOSE k \in 1..31 : n \div 2^(k - 1) = 1

\* the number of low bits of x that do not fit in the 53 bits of a double
ExcessBits(x) == BitLength(x.hi) + 30 - 53

\* round to nearest, ties to even; above: the exact result lies above x
RoundDouble(x, above) ==
    IF ExcessBits(x) <= 0 THEN x
    ELSE LET m == 2^ExcessBits(x)
             r == x.lo % m
             odd == (x.lo \div m) % 2 = 1
             up == r > m \div 2 \/ (r = m \div 2 /\ (above \/ odd))
         IN  Dbl(x.hi, x.lo - r + (IF up THEN m ELSE 0))

DblLeq(x, y) == x.hi < y.hi \/ (x.hi = y.hi /\ x.lo <= y.lo)

\* the distance of two doubles, exactly
DblGap(x, y) ==
    IF DblLeq(y, x) THEN Dbl(x.hi - y.hi - 1, x.lo - y.lo + Word)
    ELSE Dbl(y.hi - x.hi - 1, y.lo - x.lo + Word)

\* x + y and x - y (for y <= x)
DblAdd(x, y) == RoundDouble(Dbl(x.hi + y.hi, x.lo + y.lo), FALSE)
DblSub(x, y) == RoundDouble(DblGap(x, y), FALSE)

\* n * x for a small natural number n
RECURSIVE DblSum(_, _)
DblSum(n, x) ==
    IF n = 0 THEN Dbl(0, 0)
    ELSE LET rest == DblSum(n - 1, x) IN Dbl(x.hi + rest.hi, x.lo + rest.lo)

DblTimes(n, x) == RoundDouble(DblSum(n, x), FALSE)

\* n / d for natural numbers n < 16 * d, d < 2^17: long division with four
\* digits of 14 bits after the binary point gives floor(n * 2^56 / d) and
\* what is left over; the quotient is then rounded
DivDigit(r, d) == [q |-> (r * 2^14) \div d, r |-> (r * 2^14) % d]

DblDiv(n, d) ==
    LET d1 == DivDigit(n % d, d)
        d2 == DivDigit(d1.r, d)
        d3 == DivDigit(d2.r, d)
        d4 == DivDigit(d3.r, d)
        x == Dbl((n \div d) * 2^26 + d1.q * 2^12 + d2.q \div 4,
                 (d2.q % 4) * 2^28 + d3.q * 2^14 + d4.q)
    IN  RoundDouble(x, d4.r # 0)

\* mTempo = mSig.tempo || score.tempo
tempoOf(m, scoreData) ==
    LET mSig == getEffectiveSignature(m, scoreData)
    IN  IF mSig.tempo # 0 THEN mSig.tempo ELSE scoreData.score.tempo

\* mBeats * mSecPerBeat with mSecPerBeat = 60 / mTempo, as the code computes it
measureSeconds(m, scoreData) ==
    DblTimes(getEffectiveSignature(m, scoreData).time[1],
             DblDiv(60, tempoOf(m, scoreData)))

\* cumTime when the loop over the measures reaches m, as the code computes it
RECURSIVE cumSeconds(_, _, _)
cumSeconds(fromMeasure, m, scoreData) ==
    IF m <= fromMeasure THEN Dbl(0, 0)
    ELSE DblAdd(cumSeconds(fromMeasure, m - 1, scoreData),
                measureSeconds(m - 1, scoreData))

\* fault variant of cumTimeAt: every measure is given the time signature and
\* the tempo of the score
cumTimeAt_ScoreWide(fromMeasure, m, scoreData) ==
    IF m <= fromMeasure THEN 0
    ELSE (m - fromMeasure) * scoreData.score.time_signature[1]
           * (6000 \div scoreData.score.tempo)

\* cumTime when the loop over the measures reaches m
RECURSIVE cumTimeAt(_, _, _)
cumTimeAt(fromMeasure, m, scoreData) ==
    IF m <= fromMeasure THEN 0
    ELSE cumTimeAt(fromMeasure, m - 1, scoreData)
         + beatsOf(m - 1, scoreData) * secPerBeatOf(m - 1, scoreData)

\* table[m] || dflt
Lookup(table, m, dflt) ==
    IF m \in DOMAIN table /\ table[m] # 0 THEN table[m] ELSE dflt

\* DUR_TO_BEATS[duration] || 1, in quarters of a beat
DUR_TO_BEATS(duration) ==
    CASE duration = "whole" -> 16
      [] duration = "half" -> 8
      [] duration = "quarter" -> 4
      [] duration = "eighth" -> 2
      [] duration = "sixteenth" -> 1
      [] OTHER -> 4

\* durBeats * secPerBeat
noteDurOf(note, secPerBeat) == (DUR_TO_BEATS(note.duration) * secPerBeat) \div 4

Min(a, b) == IF a <= b THEN a ELSE b

\* the automation of lfoGain.gain: setValueAtTime(0, startTime), then
\* linearRampToValueAtTime(depth, startTime + Math.min(0.4, duration * 0.5))
LfoRamp(depth, noteStart, noteDur) ==
    [v0 |-> 0, t0 |-> noteStart,
     v1 |-> depth, t1 |-> noteStart + Min(40, noteDur \div 2)]

\* a node without such an automation
NoRamp == [v0 |-> 0, t0 |-> 0, v1 |-> 0, t1 |-> 0]

\* the times of the automation events of noteGain.gain, in the order in
\* which _scheduleNote issues them, in units of 0.1 ms (centiseconds times
\* EnvUnit), so that duration * 0.15 and duration * 0.3 are whole numbers
EnvUnit == 100

\* sample path: attack = Math.min(0.06, duration * 0.15),
\* release = Math.min(0.2, duration * 0.3); setValueAtTime(startTime), ramp
\* to sustainStart, setValueAtTime(sustainStart), ramp to releaseStart, ramp
\* to startTime + duration
sampleEnvelope(noteStart, noteDur) ==
    LET attack == Min(600, noteDur * 15)
        release == Min(2000, noteDur * 30)
        sustainStart == noteStart * EnvUnit + attack
        releaseStart == (noteStart + noteDur) * EnvUnit - release
    IN  <<noteStart * EnvUnit, sustainStart, sustainStart, releaseStart,
          (noteStart + noteDur) * EnvUnit>>

\* synthesis fallback: setValueAtTime(startTime), ramp to startTime + 0.05,
\* setValueAtTime(startTime + duration - 0.1), ramp to startTime + duration
synthEnvelope(noteStart, noteDur) ==
    <<noteStart * EnvUnit, noteStart * EnvUnit + 500,
      (noteStart + noteDur) * EnvUnit - 1000, (noteStart + noteDur) * EnvUnit>>

\* the nodes _scheduleNote starts, in the order it pushes them: the LFO if
\* the note has vibrato (depth 12 cents on a buffer source, 3 Hz on the
\* fallback oscillator), then the buffer source or the oscillator
NodesOf(note, sampled, noteStart, noteDur, session) ==
    LET mk(kind, ramp, env) ==
            [note |-> note.id, kind |-> kind, session |-> session,
             at |-> noteStart, ramp |-> ramp, env |-> env]
        main == IF sampled
                THEN mk("source", NoRamp, sampleEnvelope(noteStart, noteDur))
                ELSE mk("osc", NoRamp, synthEnvelope(noteStart, noteDur))
        lfo == mk("lfo", LfoRamp(IF sampled THEN 12 ELSE 3, noteStart, noteDur),
                  <<>>)
    IN  IF note.vibrato = 1 THEN <<lfo, main>> ELSE <<main>>

\* fault variant of _scheduleNote: the LFO is started but not pushed
_scheduleNote_LfoNotPushed(w, note, noteStart, noteDur, session) ==
    LET started == NodesOf(note, get(w, note), noteStart, noteDur, session)
    IN  [w EXCEPT !.liveNodes = @ \cup Range(started),
                  !.scheduledNodes = Append(@, started[Len(started)])]

\* fault variant of _scheduleNote: without a sample nothing is scheduled
_scheduleNote_NoFallback(w, note, noteStart, noteDur, session) ==
    LET started == NodesOf(note, TRUE, noteStart, noteDur, session)
    IN  IF get(w, note)
        THEN [w EXCEPT !.liveNodes = @ \cup Range(started),
                       !.scheduledNodes = @ \o started]
        ELSE w

\* fault variant of _scheduleNote: the LFO of the fallback oscillator is at
\* full depth from the start of the note
_scheduleNote_SynthAtFullDepth(w, note, noteStart, noteDur, session) ==
    LET nodes == NodesOf(note, get(w, note), noteStart, noteDur, session)
        started == [i \in DOMAIN nodes |->
                      IF nodes[i].kind = "lfo" /\ ~get(w, note)
                      THEN [nodes[i] EXCEPT !.ramp.v0 = 3]
                      ELSE nodes[i]]
    IN  [w EXCEPT !.liveNodes = @ \cup Range(started),
                  !.scheduledNodes = @ \o started]

\* _scheduleNote: the LFO (if any) and then the buffer source or the
\* fallback oscillator are started and pushed on scheduledNodes
_scheduleNote(w, note, noteStart, noteDur, session) ==
    LET started == NodesOf(note, get(w, note), noteStart, noteDur, session)
    IN  [w EXCEPT !.liveNodes = @ \cup Range(started),
                  !.scheduledNodes = @ \o started]

\* whether the scheduling loop of play() passes the note on to _scheduleNote
passesFilter(w, note, fromMeasure) ==
    /\ ~note.is_rest
    /\ note.measure >= fromMeasure
    /\ ~(w.soloInstrument # "" /\ note.instrument_id # w.soloInstrument)
    /\ note.instrument_id \notin w.mutedInstruments

\* fault variant of scheduleLoop: the seconds per beat are those of the
\* measure playback starts from
RECURSIVE scheduleLoop_StartMeasureBeat(_, _, _, _, _)
scheduleLoop_StartMeasureBeat(w, list, fromMeasure, scoreData, session) ==
    IF list = <<>> THEN w
    ELSE LET note == Head(list)
             measureStart == Lookup(w.measureStartTimes, note.measure, 0)
             secPerBeat == Lookup(w.measureSecPerBeat, fromMeasure,
                                  6000 \div scoreData.score.tempo)
             noteStart == w.startTime + SCHEDULE_AHEAD + measureStart
                          + beatOffset(note, secPerBeat)
             noteDur == noteDurOf(note, secPerBeat)
         IN  IF passesFilter(w, note, fromMeasure)
             THEN scheduleLoop_StartMeasureBeat(
                      _scheduleNote(w, note, noteStart, noteDur, session),
                      Tail(list), fromMeasure, scoreData, session)
             ELSE scheduleLoop_StartMeasureBeat(w, Tail(list), fromMeasure,
                                                scoreData, session)

\* the scheduling loop of play() over the notes
RECURSIVE scheduleLoop(_, _, _, _, _)
scheduleLoop(w, list, fromMeasure, scoreData, session) ==
    IF list = <<>> THEN w
    ELSE LET note == Head(list)
             measureStart == Lookup(w.measureStartTimes, note.measure, 0)
             secPerBeat == Lookup(w.measureSecPerBeat, note.measure,
                                  6000 \div scoreData.score.tempo)
             noteStart == w.startTime + SCHEDULE_AHEAD + measureStart
                          + beatOffset(note, secPerBeat)
             noteDur == noteDurOf(note, secPerBeat)
         IN  IF passesFilter(w, note, fromMeasure)
             THEN scheduleLoop(_scheduleNote(w, note, noteStart, noteDur, session),
                               Tail(list), fromMeasure, scoreData, session)
             ELSE scheduleLoop(w, Tail(list), fromMeasure, scoreData, session)

\* _animateMeasure: registers the first frame of a polling loop whose tick
\* closes over lastMeasure
_animateMeasure(w, session) ==
    [w EXCEPT !.frames = @ \cup {[id |-> session, lastMeasure |-> w.lastPlayMeasure]},
              !.animFrame = session]

\* play() up to `await this._samples.preload(...)`
playCall(w, noteList, fromMeasure, session) ==
    LET w1 == stop(w)
        w2 == [w1 EXCEPT !.playing = TRUE, !.loading = TRUE,
                         !.startMeasure = fromMeasure]
        playable == SelectSeq(noteList,
                        LAMBDA n : ~n.is_rest /\ n.measure >= fromMeasure)
        r == preload(w2, playable, session)
    IN  [w |-> r.w,
         play |-> [id |-> session, fromMeasure |-> fromMeasure, jobs |-> r.jobs]]

\* fault variant of playResume: the start measure is announced through
\* onMeasureChange before the polling loop is started
playResume_AnnouncesStart(w, noteList, p) ==
    IF ~w.playing THEN w
    ELSE LET scoreData == ScoreData(noteList)
             lastNotesMeasure == lastNotesMeasureOf(noteList, p.fromMeasure)
             span == p.fromMeasure..lastNotesMeasure
             w1 == [w EXCEPT
                      !.loading = FALSE,
                      !.graphs = @ + 1,
                      !.startTime = w.now,
                      !.lastPlayMeasure = lastNotesMeasure,
                      !.measureStartTimes =
                          [m \in span |-> cumTimeAt(p.fromMeasure, m, scoreData)],
                      !.measureSecPerBeat =
                          [m \in span |-> secPerBeatOf(m, scoreData)],
                      !.totalDuration =
                          cumTimeAt(p.fromMeasure, lastNotesMeasure + 1, scoreData),
                      !.seconds =
                          [m \in p.fromMeasure..(lastNotesMeasure + 1) |->
                              cumSeconds(p.fromMeasure, m, scoreData)]]
             w2 == scheduleLoop(w1, noteList, p.fromMeasure, scoreData, p.id)
             w3 == [w2 EXCEPT !.out = Append(@, MeasureEvent(w2.startMeasure))]
         IN  _animateMeasure(w3, p.id)

\* fault variant of playResume: `if (!this.playing) return` is missing
playResume_NoPlayingTest(w, noteList, p) ==
    LET scoreData == ScoreData(noteList)
        lastNotesMeasure == lastNotesMeasureOf(noteList, p.fromMeasure)
        span == p.fromMeasure..lastNotesMeasure
        w1 == [w EXCEPT
                 !.loading = FALSE,
                 !.graphs = @ + 1,
                 !.startTime = w.now,
                 !.lastPlayMeasure = lastNotesMeasure,
                 !.measureStartTimes =
                     [m \in span |-> cumTimeAt(p.fromMeasure, m, scoreData)],
                 !.measureSecPerBeat =
                     [m \in span |-> secPerBeatOf(m, scoreData)],
                 !.totalDuration =
                     cumTimeAt(p.fromMeasure, lastNotesMeasure + 1, scoreData),
                 !.seconds =
                     [m \in p.fromMeasure..(lastNotesMeasure + 1) |->
                         cumSeconds(p.fromMeasure, m, scoreData)]]
        w2 == scheduleLoop(w1, noteList, p.fromMeasure, scoreData, p.id)
    IN  _animateMeasure(w2, p.id)

\* play() after the await: noteList is the shared list as it is now
playResume(w, noteList, p) ==
    IF ~w.playing THEN w
    ELSE LET scoreData == ScoreData(noteList)
             lastNotesMeasure == lastNotesMeasureOf(noteList, p.fromMeasure)
             span == p.fromMeasure..lastNotesMeasure
             w1 == [w EXCEPT
                      !.loading = FALSE,
                      !.graphs = @ + 1,
                      !.startTime = w.now,
                      !.lastPlayMeasure = lastNotesMeasure,
                      !.measureStartTimes =
                          [m \in span |-> cumTimeAt(p.fromMeasure, m, scoreData)],
                      !.measureSecPerBeat =
                          [m \in span |-> secPerBeatOf(m, scoreData)],
                      !.totalDuration =
                          cumTimeAt(p.fromMeasure, lastNotesMeasure + 1, scoreData),
                      !.seconds =
                          [m \in p.fromMeasure..(lastNotesMeasure + 1) |->
                              cumSeconds(p.fromMeasure, m, scoreData)]]
             w2 == scheduleLoop(w1, noteList, p.fromMeasure, scoreData, p.id)
         IN  _animateMeasure(w2, p.id)

\* the measure the playhead is in: the scan of tick over the start table
RECURSIVE scanMeasure(_, _, _, _, _)
scanMeasure(w, m, lastMeasure, elapsed, currentMeasure) ==
    IF m > lastMeasure THEN currentMeasure
    ELSE IF elapsed >= Lookup(w.measureStartTimes, m, 0)
         THEN scanMeasure(w, m + 1, lastMeasure, elapsed, m)
         ELSE currentMeasure

\* a hook of the application is called; it may call playback.stop()
runHook(w, event, callsStop) ==
    LET w1 == [w EXCEPT !.out = Append(@, event)]
    IN  IF callsStop THEN stop(w1) ELSE w1

\* what the hooks of the application do during one tick: return, or call
\* playback.stop() from onMeasureChange or from onPlaybackTick
Hooks == {"return", "stopInMeasureChange", "stopInPlaybackTick"}

\* fault variant of tick: at the end of the score the hook gets the measure
\* the playhead is in, not the start measure
tick_EndAtCurrentMeasure(w, f, noteList, hooks) ==
    LET w0 == [w EXCEPT !.frames = @ \ {f}]
        elapsed == w.now - w.startTime
    IN  IF ~w0.playing THEN w0
        ELSE IF elapsed >= w0.totalDuration + SCHEDULE_AHEAD
        THEN runHook(stop(w0),
                     MeasureEvent(scanMeasure(w0, w0.startMeasure, f.lastMeasure,
                                              elapsed, w0.startMeasure)), FALSE)
        ELSE LET scoreData == ScoreData(noteList)
                 currentMeasure == scanMeasure(w0, w0.startMeasure, f.lastMeasure,
                                               elapsed, w0.startMeasure)
                 w1 == runHook(w0, MeasureEvent(currentMeasure),
                               hooks = "stopInMeasureChange")
                 secPerMeasure == beatsOf(currentMeasure, scoreData)
                                  * Lookup(w1.measureSecPerBeat, currentMeasure,
                                           6000 \div scoreData.score.tempo)
                 elapsedInMeasure == elapsed
                                     - Lookup(w1.measureStartTimes, currentMeasure, 0)
                 w2 == runHook(w1, TickEvent(currentMeasure, elapsedInMeasure,
                                             secPerMeasure),
                               hooks = "stopInPlaybackTick")
             IN  [w2 EXCEPT !.frames = @ \cup {f}, !.animFrame = f.id]

\* fault variant of tick: the test for the end of the score is missing
tick_NoEndTest(w, f, noteList, hooks) ==
    LET w0 == [w EXCEPT !.frames = @ \ {f}]
        elapsed == w.now - w.startTime
    IN  IF ~w0.playing THEN w0
        ELSE LET scoreData == ScoreData(noteList)
                 currentMeasure == scanMeasure(w0, w0.startMeasure, f.lastMeasure,
                                               elapsed, w0.startMeasure)
                 w1 == runHook(w0, MeasureEvent(currentMeasure),
                               hooks = "stopInMeasureChange")
                 secPerMeasure == beatsOf(currentMeasure, scoreData)
                                  * Lookup(w1.measureSecPerBeat, currentMeasure,
                                           6000 \div scoreData.score.tempo)
                 elapsedInMeasure == elapsed
                                     - Lookup(w1.measureStartTimes, currentMeasure, 0)
                 w2 == runHook(w1, TickEvent(currentMeasure, elapsedInMeasure,
                                             secPerMeasure),
                               hooks = "stopInPlaybackTick")
             IN  [w2 EXCEPT !.frames = @ \cup {f}, !.animFrame = f.id]

\* one firing of the tick closure of polling loop f
tick(w, f, noteList, hooks) ==
    LET w0 == [w EXCEPT !.frames = @ \ {f}]
        elapsed == w.now - w.startTime
    IN  IF ~w0.playing THEN w0
        ELSE IF elapsed >= w0.totalDuration + SCHEDULE_AHEAD
        THEN runHook(stop(w0), MeasureEvent(w0.startMeasure), FALSE)
        ELSE LET scoreData == ScoreData(noteList)
                 currentMeasure == scanMeasure(w0, w0.startMeasure, f.lastMeasure,
                                               elapsed, w0.startMeasure)
                 w1 == runHook(w0, MeasureEvent(currentMeasure),
                               hooks = "stopInMeasureChange")
                 mBeats == beatsOf(currentMeasure, scoreData)
                 mSecPerBeat == Lookup(w1.measureSecPerBeat, currentMeasure,
                                       6000 \div scoreData.score.tempo)
                 secPerMeasure == mBeats * mSecPerBeat
                 measureStartTime == Lookup(w1.measureStartTimes, currentMeasure, 0)
                 elapsedInMeasure == elapsed - measureStartTime
                 w2 == runHook(w1, TickEvent(currentMeasure, elapsedInMeasure,
                                             secPerMeasure),
                               hooks = "stopInPlaybackTick")
             IN  [w2 EXCEPT !.frames = @ \cup {f}, !.animFrame = f.id]


\* ------------------------------------------------------------------------
\* Scheduling of the browser: promise jobs run before the next task
\* ------------------------------------------------------------------------
\* a suspended play() can go on once every load it awaits has settled
Ready(p) == p.jobs \cap loads = {}

ReadyPlays == {i \in DOMAIN plays : Ready(plays[i])}

\* continuations run in the order in which the calls were made
NextReady == CHOOSE i \in ReadyPlays : \A j \in ReadyPlays : i <= j

\* A new task (animation frame, network, timer, user event) starts only when
\* no promise job is left.  The task that made a call may make another one
\* before its promise jobs run (play(); stop()).
TaskMayStart == ReadyPlays = {}
CallMayHappen == inCall \/ TaskMayStart

Phase(isPlaying, isLoading) ==
    IF ~isPlaying THEN "idle" ELSE IF isLoading THEN "loading" ELSE "playing"

\* nothing of a session is left: no node, no frame, no play() in progress
Quiet ==
    /\ ~playing /\ ~loading
    /\ scheduledNodes = <<>> /\ liveNodes = {}
    /\ frames = {} /\ animFrame = 0
    /\ plays = <<>>

\* The record of a handler: its name; the play() invocation it ran for (the
\* continuation resumed, the polling loop ticked); what the hooks did; the
\* callbacks delivered; the node.stop() calls made and the kinds of node they
\* were made on; the audio graphs built; the keys fetch was called for; for
\* a stop() of the application,
\* whether it found the engine quiet, and the number of node.stop() calls of
\* the stop() it directly follows (-1 if it follows something else).
Did(op, session, hooks, w) ==
    [op |-> op, session |-> session, hooks |-> hooks,
     out |-> w.out, stops |-> w.stops, kinds |-> w.kinds, graphs |-> w.graphs,
     seen |-> w.seen, seconds |-> w.seconds, fetches |-> w.fetches,
     wasQuiet |-> op = "stop" /\ Quiet,
     again |-> IF op = "stop" /\ last.op = "stop" THEN last.stops ELSE -1]

\* ------------------------------------------------------------------------
\* server.js: values of request bodies and of table columns.  A value is
\* undefined (field missing), null (SQL NULL), a number or a string.
\* ------------------------------------------------------------------------
JsUndefined == [type |-> "undefined", num |-> 0, str |-> ""]
JsNull == [type |-> "null", num |-> 0, str |-> ""]
JsNumber(n) == [type |-> "number", num |-> n, str |-> ""]
JsString(s) == [type |-> "string", num |-> 0, str |-> s]

\* parseInt(req.params.measure): NaN for a parameter that is no number
NaN == [type |-> "NaN", num |-> 0, str |-> ""]

\* x < k and x > k for a number k: a string that is no number converts to
\* NaN, and every comparison with NaN is false
JsLess(x, k) == x.type = "number" /\ x.num < k
JsGreater(x, k) == x.type = "number" /\ x.num > k

\* x || null
OrNull(x) ==
    IF \/ x.type \in {"undefined", "null"}
       \/ x = JsNumber(0) \/ x = JsString("")
    THEN JsNull ELSE x

\* better-sqlite3 binds numbers, strings and null; undefined makes run()
\* throw a TypeError, which Express answers with status 500
Bindable(x) == x.type # "undefined"

\* column = ? in a WHERE clause: NULL is equal to nothing
SqlEquals(column, x) == column.type # "null" /\ x.type # "null" /\ column = x

\* the last request (its route and what it passed) and the status answered
NoResponse == [op |-> "", args |-> <<>>, status |-> 0]
Answer(op, args, status) == [op |-> op, args |-> args, status |-> status]

\* SELECT total_measures FROM score WHERE id = 1
total_measures == Score.total_measures

\* POST /api/notes: measure checked, then INSERT under a fresh id
postNote(rows, id, measure, session_id) ==
    IF measure < 1 \/ measure > total_measures
    THEN [rows |-> rows, status |-> 400]
    ELSE IF ~Bindable(session_id)
    THEN [rows |-> rows, status |-> 500]
    ELSE [rows |-> rows \cup {[id |-> id, session_id |-> session_id]},
          status |-> 200]

\* DELETE /api/notes/:id with body {session_id}:
\* DELETE FROM notes WHERE id = ? AND session_id = ?
deleteNote(rows, id, session_id) ==
    IF ~Bindable(session_id)
    THEN [rows |-> rows, status |-> 500]
    ELSE LET hit == {r \in rows : r.id = id /\ SqlEquals(r.session_id, session_id)}
         IN  [rows |-> rows \ hit, status |-> IF hit # {} THEN 200 ELSE 404]

\* the rowid SQLite gives a row inserted with a NULL INTEGER PRIMARY KEY
NextRowId(rows) ==
    IF rows = {} THEN 1
    ELSE (CHOOSE m \in {r.measure : r \in rows} :
              \A r \in rows : r.measure <= m) + 1

\* PUT /api/measure-signature/:measure with body {key_signature,
\* time_signature, tempo}: the two checks, then the upsert.  A NaN measure
\* passes the range check (both comparisons are false) and is bound as NULL.
putSignature(rows, measure, key_signature, time_signature, tempo) ==
    IF JsLess(measure, 1) \/ JsGreater(measure, total_measures)
    THEN [rows |-> rows, status |-> 400]
    ELSE IF /\ tempo.type # "undefined" /\ tempo.type # "null"
            /\ (JsLess(tempo, 20) \/ JsGreater(tempo, 300))
    THEN [rows |-> rows, status |-> 400]
    ELSE LET at == IF measure.type = "NaN" THEN NextRowId(rows) ELSE measure.num
             row == [measure |-> at,
                     key_signature |-> OrNull(key_signature),
                     time_signature |-> OrNull(time_signature),
                     tempo |-> OrNull(tempo)]
         IN  [rows |-> {r \in rows : r.measure # at} \cup {row},
              status |-> 200]

\* DELETE /api/measure-signature/:measure
deleteSignature(rows, measure) ==
    [rows |-> {r \in rows : ~(measure.type = "number" /\ r.measure = measure.num)},
     status |-> 200]

\* ------------------------------------------------------------------------
\* Wall-clock time and its two spellings.  An instant is a day (UTC) and the
\* milliseconds since its midnight.  A timestamp text is kept as the parts
\* that decide a comparison of strings: the date "YYYY-MM-DD" (fixed width,
\* ordered like the day), the character after it, the time "HH:MM:SS"
\* (fixed width, ordered like the second of the day) and the rest.
\* ------------------------------------------------------------------------
MsPerDay == 86400000

\* setInterval(..., 15000)
PollInterval == 15000

\* the clock starts two polling intervals before midnight
FirstInstant == [day |-> 1, ms |-> MsPerDay - 2 * PollInterval]

\* new Date().toISOString(): "2024-05-01T23:59:30.000Z"
toISOString(t) ==
    <<t.day, "T", t.ms \div 1000, <<".", t.ms % 1000, "Z">> >>

\* SQLite datetime('now'): "2024-05-01 23:59:30"
datetimeNow(t) == <<t.day, " ", t.ms \div 1000, <<>> >>

\* the instant a timestamp text stands for, to the precision it has
InstantOf(text) ==
    [day |-> text[1],
     ms |-> text[3] * 1000 + (IF text[4] = <<>> THEN 0 ELSE text[4][2])]

Later(t, u) == t.day > u.day \/ (t.day = u.day /\ t.ms > u.ms)

CharCode(c) == IF c = " " THEN 32 ELSE 84

\* a > b for TEXT values in SQLite (memcmp; a prefix is smaller)
SqlTextGreater(a, b) ==
    \/ a[1] > b[1]
    \/ /\ a[1] = b[1]
       /\ \/ CharCode(a[2]) > CharCode(b[2])
          \/ /\ a[2] = b[2]
             /\ \/ a[3] > b[3]
                \/ /\ a[3] = b[3]
                   /\ \/ a[4] # <<>> /\ b[4] = <<>>
                      \/ a[4] # <<>> /\ b[4] # <<>> /\ a[4][2] > b[4][2]

\* INSERT INTO notes: created_at takes its default datetime('now')
insertNote(rows, note, session_id, t) ==
    rows \cup {[id |-> note.id, session_id |-> session_id,
                created_at |-> datetimeNow(t), note |-> note]}

\* GET /api/notes/since/:timestamp:
\* SELECT * FROM notes WHERE created_at > ? (ORDER BY measure, beat)
notesSince(rows, timestamp) ==
    {r \in rows : SqlTextGreater(r.created_at, timestamp)}

\* ------------------------------------------------------------------------
\* Init: the engine after construction, the score as fetched
\* ------------------------------------------------------------------------
InitEngine ==
    /\ playing = FALSE
    /\ loading = FALSE
    /\ startTime = 0
    /\ startMeasure = 1
    /\ scheduledNodes = <<>>
    /\ mutedInstruments = {}
    /\ soloInstrument = ""
    /\ animFrame = 0
    /\ lastPlayMeasure = 0
    /\ measureStartTimes = <<>>
    /\ measureSecPerBeat = <<>>
    /\ totalDuration = 0
    /\ cache = {}
    /\ pending = [k \in Keys |-> 0]
    /\ loads = {}
    /\ fetched = {}
    /\ frames = {}
    /\ liveNodes = {}
    /\ now = 0
    /\ plays = <<>>
    /\ playCount = 0
    /\ inCall = FALSE
    /\ resolved = NotResolved
    /\ notes_table = {}
    /\ measure_signatures = {}
    /\ response = NoResponse
    /\ lastFetchTime = <<>>
    /\ wallClock = FirstInstant
    /\ last = [op |-> "init", session |-> 0, hooks |-> "", out |-> <<>>,
               stops |-> 0, kinds |-> {}, graphs |-> 0, seen |-> {},
               seconds |-> <<>>, fetches |-> <<>>, wasQuiet |-> FALSE,
               again |-> -1]

Init ==
    /\ InitEngine
    /\ notes = BaseNotes
    /\ scoreMeta = [score |-> Score, measureSignatures |-> MeasureSignatures]

\* ------------------------------------------------------------------------
\* Actions
\* ------------------------------------------------------------------------
\* playback.play(scoreData, fromMeasure), up to its await
PlayWithin(limit, fromMeasure) ==
    /\ CallMayHappen
    /\ playCount < limit
    /\ \E r \in {playCall(World, notes, fromMeasure, playCount + 1)} :
           /\ Commit(r.w)
           /\ plays' = Append(plays, r.play)
           /\ last' = Did("play", 0, "", r.w)
    /\ playCount' = playCount + 1
    /\ inCall' = TRUE
    /\ UNCHANGED notes

Play(fromMeasure) == PlayWithin(MaxPlays, fromMeasure)

\* the same call in behaviours that make one more play() than MaxPlays
PlayAgain(fromMeasure) == PlayWithin(MaxPlays + 1, fromMeasure)

\* the continuation of the oldest play() whose preload has settled
Resume ==
    /\ inCall' = FALSE
    /\ ReadyPlays # {}
    /\ \E w \in {playResume(World, notes, plays[NextReady])} :
           /\ Commit(w)
           /\ plays' = [i \in 1..(Len(plays) - 1) |->
                            IF i < NextReady THEN plays[i] ELSE plays[i + 1]]
           /\ last' = Did("resume", plays[NextReady].id, "", w)
    /\ UNCHANGED <<notes, playCount>>

\* playback.stop() called by the application
Stop ==
    /\ CallMayHappen
    /\ inCall' = TRUE
    /\ \E w \in {stop(World)} :
           /\ Commit(w)
           /\ last' = Did("stop", 0, "", w)
    /\ UNCHANGED <<notes, plays, playCount>>

ToggleMute(instrumentId) ==
    /\ CallMayHappen
    /\ inCall' = TRUE
    /\ \E w \in {toggleMute(World, instrumentId)} :
           /\ Commit(w)
           /\ last' = Did("toggleMute", 0, "", w)
    /\ UNCHANGED <<notes, plays, playCount>>

ToggleSolo(instrumentId) ==
    /\ CallMayHappen
    /\ inCall' = TRUE
    /\ \E w \in {toggleSolo(World, instrumentId)} :
           /\ Commit(w)
           /\ last' = Did("toggleSolo", 0, "", w)
    /\ UNCHANGED <<notes, plays, playCount>>

\* a running load settles, with a decoded sample or with an error
LoadSettle(job, ok) ==
    /\ inCall' = FALSE
    /\ TaskMayStart
    /\ job \in loads
    /\ \E w \in {loadSettle(World, job, ok)} :
           /\ Commit(w)
           /\ last' = Did(IF ok THEN "loaded" ELSE "loadFailed", 0, "", w)
    /\ UNCHANGED <<notes, plays, playCount>>

\* the browser runs the registered frame f
Tick(f, hooks) ==
    /\ inCall' = FALSE
    /\ TaskMayStart
    /\ f \in frames
    /\ \E w \in {tick(World, f, notes, hooks)} :
           /\ Commit(w)
           /\ last' = Did("tick", f.id,
                          IF w.out # <<>> /\ w.out[1].cb = "onMeasureChange"
                          THEN hooks ELSE "", w)
    /\ UNCHANGED <<notes, plays, playCount>>

\* the audio clock runs on
Advance ==
    /\ UNCHANGED inCall
    /\ playing /\ frames # {}
    /\ now < MaxClockSteps * ClockStep
    /\ \E w \in {[World EXCEPT !.now = @ + ClockStep]} :
           /\ Commit(w)
           /\ last' = Did("advance", 0, "", w)
    /\ UNCHANGED <<notes, plays, playCount>>

\* startPolling: the notes of a poll that are not yet known locally are
\* pushed on the shared list
mergeNotes(noteList, newNotes) ==
    LET existingIds == {noteList[i].id : i \in DOMAIN noteList}
    IN  noteList \o SelectSeq(newNotes, LAMBDA n : n.id \notin existingIds)

Poll(newNotes) ==
    /\ inCall' = FALSE
    /\ TaskMayStart
    /\ Len(mergeNotes(notes, newNotes)) <= Len(BaseNotes) + MaxAppend
    /\ notes' = mergeNotes(notes, newNotes)
    /\ Commit(World)
    /\ last' = Did("poll", 0, "", World)
    /\ UNCHANGED <<plays, playCount>>

Next ==
    \/ \E m \in Measures : Play(m)
    \/ Resume
    \/ Stop
    \/ \E job \in loads, ok \in BOOLEAN : LoadSettle(job, ok)
    \/ \E f \in frames, hooks \in Hooks : Tick(f, hooks)
    \/ Advance
    \/ \E n \in RemoteNotes : Poll(<<n>>)

Spec == Init /\ [][Next]_vars

\* behaviours with one more play()
NextAgain ==
    \/ \E m \in Measures : PlayAgain(m)
    \/ Resume
    \/ Stop
    \/ \E job \in loads, ok \in BOOLEAN : LoadSettle(job, ok)
    \/ \E f \in frames, hooks \in Hooks : Tick(f, hooks)
    \/ Advance
    \/ \E n \in RemoteNotes : Poll(<<n>>)

SpecAgain == Init /\ [][NextAgain]_vars

\* one play() left alone: no stop() and no further play(), hooks that just
\* return; the audio clock keeps running and the browser keeps firing the
\* registered animation frames
PlayAlone(fromMeasure) == PlayWithin(1, fromMeasure)

TickReturns == \E f \in frames : Tick(f, "return")

NextAlone ==
    \/ \E m \in Measures : PlayAlone(m)
    \/ Resume
    \/ \E job \in loads, ok \in BOOLEAN : LoadSettle(job, ok)
    \/ TickReturns
    \/ Advance
    \/ \E n \in RemoteNotes : Poll(<<n>>)

SpecAlone ==
    Init /\ [][NextAlone]_vars /\ WF_vars(Advance) /\ WF_vars(TickReturns)

\* behaviours with the mute and solo buttons: the mix is set before, between
\* and after the calls of play()
NextMix ==
    \/ \E i \in Instruments : ToggleMute(i)
    \/ \E i \in Instruments : ToggleSolo(i)
    \/ \E m \in Measures : Play(m)
    \/ Resume
    \/ \E job \in loads, ok \in BOOLEAN : LoadSettle(job, ok)
    \/ \E n \in RemoteNotes : Poll(<<n>>)

SpecMix == Init /\ [][NextMix]_vars

\* play() while fetch throws when it is called (no promise is returned)
PlayFetchThrows(fromMeasure) ==
    /\ CallMayHappen
    /\ playCount < MaxPlays
    /\ \E r \in {playCall([World EXCEPT !.fetchThrows = TRUE], notes,
                          fromMeasure, playCount + 1)} :
           /\ Commit(r.w)
           /\ plays' = Append(plays, r.play)
           /\ last' = Did("play", 0, "throws", r.w)
    /\ playCount' = playCount + 1
    /\ inCall' = TRUE
    /\ UNCHANGED notes

\* behaviours in which a load can fail at any of its steps: in the call of
\* fetch, or later (rejected fetch, HTTP error, arrayBuffer, decodeAudioData)
NextFail ==
    \/ \E m \in Measures : Play(m)
    \/ \E m \in Measures : PlayFetchThrows(m)
    \/ Resume
    \/ \E job \in loads, ok \in BOOLEAN : LoadSettle(job, ok)
    \/ \E n \in RemoteNotes : Poll(<<n>>)

SpecFail == Init /\ [][NextFail]_vars

\* ------------------------------------------------------------------------
\* The server on its own: requests on the notes of two sessions
\* ------------------------------------------------------------------------
clientVars ==
    <<notes, playing, loading, startTime, startMeasure, scheduledNodes,
      mutedInstruments, soloInstrument, animFrame, lastPlayMeasure,
      measureStartTimes, measureSecPerBeat, totalDuration,
      cache, pending, loads, fetched, frames, liveNodes, now,
      plays, playCount, inCall, last, scoreMeta, resolved>>

\* what a request body can hold as session_id
SessionIds == {JsString("s1"), JsString("s2"), JsNull, JsUndefined}

PostNote(measure, session_id) ==
    /\ Cardinality(notes_table) < MaxNoteRows
    /\ \E id \in 1..MaxNoteRows :
          /\ \A r \in notes_table : r.id # id
          /\ \E r \in {postNote(notes_table, id, measure, session_id)} :
                /\ notes_table' = r.rows
                /\ response' = Answer("POST /api/notes",
                                          <<JsNumber(measure), session_id>>, r.status)
    /\ UNCHANGED <<clientVars, measure_signatures, pollVars>>

DeleteNote(id, session_id) ==
    /\ \E r \in {deleteNote(notes_table, id, session_id)} :
          /\ notes_table' = r.rows
          /\ response' = Answer("DELETE /api/notes",
                                <<JsNumber(id), session_id>>, r.status)
    /\ UNCHANGED <<clientVars, measure_signatures, pollVars>>

NextNotesApi ==
    \/ \E m \in 0..(total_measures + 1), sid \in SessionIds : PostNote(m, sid)
    \/ \E id \in 1..MaxNoteRows, sid \in SessionIds : DeleteNote(id, sid)

SpecNotesApi == Init /\ [][NextNotesApi]_vars

\* ------------------------------------------------------------------------
\* The server on its own: requests on the measure signatures
\* ------------------------------------------------------------------------
\* :measure as parseInt reads it
MeasureParams == {JsNumber(m) : m \in 0..(total_measures + 1)} \cup {NaN}

\* what a request body can hold as tempo
Tempos ==
    {JsUndefined, JsNull, JsString("fast")}
        \cup {JsNumber(t) : t \in {19, 20, 300, 301}}

PutSignature(measure, key_signature, time_signature, tempo) ==
    /\ \E r \in {putSignature(measure_signatures, measure, key_signature,
                               time_signature, tempo)} :
          /\ \A row \in r.rows : row.measure <= total_measures + MaxExtraRows
          /\ measure_signatures' = r.rows
          /\ response' = Answer("PUT /api/measure-signature",
                                <<measure, key_signature, time_signature, tempo>>,
                                r.status)
    /\ UNCHANGED <<clientVars, notes_table, pollVars>>

DeleteSignature(measure) ==
    /\ \E r \in {deleteSignature(measure_signatures, measure)} :
          /\ measure_signatures' = r.rows
          /\ response' = Answer("DELETE /api/measure-signature", <<measure>>,
                                r.status)
    /\ UNCHANGED <<clientVars, notes_table, pollVars>>

NextSignatureApi ==
    \/ \E m \in MeasureParams, k \in {JsUndefined, JsString("G")},
          t \in Tempos : PutSignature(m, k, JsUndefined, t)
    \/ \E m \in MeasureParams : DeleteSignature(m)

SpecSignatureApi == Init /\ [][NextSignatureApi]_vars

\* ------------------------------------------------------------------------
\* The polling of the application: other contributors store notes, the
\* interval handler asks for the notes since lastFetchTime and merges them
\* ------------------------------------------------------------------------
audioVars ==
    <<playing, loading, startTime, startMeasure, scheduledNodes,
      mutedInstruments, soloInstrument, animFrame, lastPlayMeasure,
      measureStartTimes, measureSecPerBeat, totalDuration,
      cache, pending, loads, fetched, frames, liveNodes, now,
      plays, playCount, inCall, last, scoreMeta, resolved, measure_signatures>>

\* the notes other contributors store while the application polls
PolledNotes ==
    RemoteNotes \cup {Note(6, "cello", Pitch("D", "", 3), FALSE, 1, 0)}

\* ORDER BY measure, beat
RECURSIVE OrderByMeasureBeat(_)
OrderByMeasureBeat(rows) ==
    IF rows = {} THEN <<>>
    ELSE LET r == CHOOSE x \in rows : \A y \in rows :
                      \/ x.note.measure < y.note.measure
                      \/ /\ x.note.measure = y.note.measure
                         /\ \/ x.note.beat < y.note.beat
                            \/ x.note.beat = y.note.beat /\ x.id <= y.id
         IN  <<r.note>> \o OrderByMeasureBeat(rows \ {r})

\* startPolling()
StartPolling ==
    /\ lastFetchTime = <<>>
    /\ lastFetchTime' = toISOString(wallClock)
    /\ UNCHANGED <<audioVars, notes, notes_table, response, wallClock>>

\* POST /api/notes of another contributor
StoreRemoteNote(n) ==
    /\ \A r \in notes_table : r.id # n.id
    /\ notes_table' = insertNote(notes_table, n, JsString("s2"), wallClock)
    /\ UNCHANGED <<audioVars, notes, response, lastFetchTime, wallClock>>

\* the interval handler up to its await: the server answers the request
PollRequest ==
    /\ lastFetchTime # <<>>
    /\ response = NoResponse
    /\ response' = Answer("GET /api/notes/since",
                          OrderByMeasureBeat(notesSince(notes_table, lastFetchTime)),
                          200)
    /\ UNCHANGED <<audioVars, notes, notes_table, lastFetchTime, wallClock>>

\* the interval handler after its await: merge, then take the time
PollResponse ==
    /\ response.op = "GET /api/notes/since"
    /\ notes' = mergeNotes(notes, response.args)
    /\ lastFetchTime' = toISOString(wallClock)
    /\ response' = NoResponse
    /\ UNCHANGED <<audioVars, notes_table, wallClock>>

\* the wall clock runs on by one polling interval
WallTick ==
    /\ (wallClock.day - FirstInstant.day) * MsPerDay + wallClock.ms
          < FirstInstant.ms + MaxWallSteps * PollInterval
    /\ wallClock' = IF wallClock.ms + PollInterval >= MsPerDay
                    THEN [day |-> wallClock.day + 1,
                          ms |-> wallClock.ms + PollInterval - MsPerDay]
                    ELSE [wallClock EXCEPT !.ms = @ + PollInterval]
    /\ UNCHANGED <<audioVars, notes, notes_table, response, lastFetchTime>>

NextPolling ==
    \/ StartPolling
    \/ \E n \in PolledNotes : StoreRemoteNote(n)
    \/ PollRequest
    \/ PollResponse
    \/ WallTick

SpecPolling == Init /\ [][NextPolling]_vars

\* ------------------------------------------------------------------------
\* The signature resolver on its own: scores with base tempo 100, 4/4, key C
\* and every list of at most MaxOverrides overrides in ascending measure
\* order (GET /api/score returns them ORDER BY measure, one per measure)
\* ------------------------------------------------------------------------
SigScore ==
    [tempo |-> 100, time_signature |-> <<4, 4>>, key_signature |-> "C",
     total_measures |-> MaxSigMeasure]

\* rows of measure_signatures: NULL columns are "", <<>> and 0
SigOverrides ==
    [measure : 1..MaxSigMeasure, key_signature : {"", "G"},
     time_signature : {<<>>, <<3, 4>>}, tempo : {0, 120}]

SigLists ==
    {l \in UNION {[1..n -> SigOverrides] : n \in 0..MaxOverrides} :
        \A i \in 1..(Len(l) - 1) : l[i].measure < l[i + 1].measure}

SigInputs ==
    {[score |-> SigScore]}
        \cup {[score |-> SigScore, measureSignatures |-> l] : l \in SigLists}

SigNotes ==
    << Note(1, "violin1", Pitch("C", "", 4), FALSE, 1, 0),
       Note(2, "cello", Pitch("D", "", 3), FALSE, MaxSigMeasure, 0) >>

InitSig ==
    /\ InitEngine
    /\ notes = SigNotes
    /\ scoreMeta \in SigInputs

engineVars ==
    <<notes, playing, loading, startTime, startMeasure, scheduledNodes,
      mutedInstruments, soloInstrument, animFrame, lastPlayMeasure,
      measureStartTimes, measureSecPerBeat, totalDuration,
      cache, pending, loads, fetched, frames, liveNodes, now,
      plays, playCount, inCall, last>>

\* updateTransportInfo(m): the application asks for the signature of measure m
Resolve(m) ==
    /\ resolved' = [measure |-> m, sig |-> getEffectiveSignature(m, ScoreData(notes))]
    /\ UNCHANGED <<engineVars, scoreMeta, notes_table, measure_signatures,
                   response, pollVars>>

NextSig == \E m \in 1..MaxSigMeasure : Resolve(m)

SpecSig == InitSig /\ [][NextSig]_vars

\* ------------------------------------------------------------------------
\* The signature resolver called with override lists in any order:
\* getEffectiveSignature is exported and takes whatever list its caller
\* holds (one override per measure, two different keys to tell them apart)
\* ------------------------------------------------------------------------
AnyOrderOverrides ==
    [measure : 1..MaxSigMeasure, key_signature : {"", "G", "D"},
     time_signature : {<<>>}, tempo : {0, 120}]

AnyOrderLists ==
    {l \in UNION {[1..n -> AnyOrderOverrides] : n \in 0..MaxOverrides} :
        \A i, j \in DOMAIN l : l[i].measure = l[j].measure => i = j}

InitAnyOrder ==
    /\ InitEngine
    /\ notes = SigNotes
    /\ scoreMeta \in {[score |-> SigScore, measureSignatures |-> l] :
                          l \in AnyOrderLists}

SpecAnyOrder == InitAnyOrder /\ [][NextSig]_vars

\* ------------------------------------------------------------------------
\* One play() on those scores (key signatures left out: play() does not read
\* them), with notes in the first and in the last measure
\* ------------------------------------------------------------------------
TableNotes ==
    << AtBeat(Note(1, "cello", Pitch("D", "", 3), FALSE, 1, 0), Beat(2, 1)),
       Lasting(AtBeat(Note(2, "cello", Pitch("D", "", 3), FALSE,
                           MaxSigMeasure, 0), Beat(2, 0)), "half", 1) >>

TableInputs ==
    {meta \in SigInputs :
        \A i \in DOMAIN (IF "measureSignatures" \in DOMAIN meta
                          THEN meta.measureSignatures ELSE <<>>) :
            meta.measureSignatures[i].key_signature = ""}

InitTables ==
    /\ InitEngine
    /\ notes = TableNotes
    /\ scoreMeta \in TableInputs

PlayOnce(fromMeasure) == PlayWithin(1, fromMeasure)

\* the audio clock runs on while the samples are being loaded
AdvanceLoading ==
    /\ UNCHANGED inCall
    /\ playing /\ loading
    /\ now < MaxClockSteps * ClockStep
    /\ \E w \in {[World EXCEPT !.now = @ + ClockStep]} :
           /\ Commit(w)
           /\ last' = Did("advance", 0, "", w)
    /\ UNCHANGED <<notes, plays, playCount>>

NextTables ==
    \/ \E m \in 1..MaxSigMeasure : PlayOnce(m)
    \/ \E job \in loads, ok \in BOOLEAN : LoadSettle(job, ok)
    \/ AdvanceLoading
    \/ Resume

SpecTables == InitTables /\ [][NextTables]_vars

\* ------------------------------------------------------------------------
\* One play() of two notes of every duration the editor offers, on scores in
\* 4/4 at the slowest, a medium and the fastest tempo the server accepts;
\* each sample load succeeds or fails, so that each note is played from its
\* sample or by the fallback oscillator
\* ------------------------------------------------------------------------
Durations == {"whole", "half", "quarter", "eighth", "sixteenth"}

EnvelopeTempos == {20, 60, 300}

EnvelopeNotes ==
    {<< Lasting(Note(1, "violin1", Pitch("C", "#", 4), FALSE, 1, 0), d1, 0),
        Lasting(AtBeat(Note(2, "cello", Pitch("D", "", 3), FALSE, 1, 0),
                       Beat(2, 0)), d2, 0) >> : d1, d2 \in Durations}

InitEnvelope ==
    /\ InitEngine
    /\ notes \in EnvelopeNotes
    /\ scoreMeta \in {[score |-> [tempo |-> t, time_signature |-> <<4, 4>>,
                                  key_signature |-> "C", total_measures |-> 1]] :
                          t \in EnvelopeTempos}

NextEnvelope ==
    \/ PlayOnce(1)
    \/ \E job \in loads, ok \in BOOLEAN : LoadSettle(job, ok)
    \/ Resume

SpecEnvelope == InitEnvelope /\ [][NextEnvelope]_vars


\* ------------------------------------------------------------------------
\* Vocabulary of the properties
\* ------------------------------------------------------------------------
NoteOf(id) == CHOOSE n \in Range(notes) : n.id = id

\* the running loads of key k
LoadsOf(running, k) == {job \in running : job[1] = k}

\* the keys play(scoreData, fromMeasure) has to preload
PlayableKeys(noteList, fromMeasure) ==
    {cacheKeyOf(noteList[i]) : i \in {j \in DOMAIN noteList :
        ~noteList[j].is_rest /\ noteList[j].measure >= fromMeasure}}

\* the buffer sources and oscillators (one per sounding note) among nodes
Sounding(nodes) == {i \in DOMAIN nodes : nodes[i].kind # "lfo"}

\* a {stopped: false} tick is delivered after a {stopped: true} one
ResumedAfterStopped(out) ==
    \E i, j \in DOMAIN out :
        /\ i < j
        /\ out[i] = StoppedEvent
        /\ out[j].cb = "onPlaybackTick" /\ ~out[j].stopped

\* the handler that just ran called stop(): on its own, inside play(), or
\* inside a tick
StopReturned ==
    \/ last.op \in {"stop", "play"}
    \/ last.op = "tick" /\ StoppedEvent \in Range(last.out)

\* ------------------------------------------------------------------------
\* C1
\* ------------------------------------------------------------------------
\* C1: the nodes held in scheduledNodes were all scheduled by one play()
\* invocation, and no note has two sounding nodes there.
C1_OneSessionScheduled ==
    /\ \A i, j \in DOMAIN scheduledNodes :
          scheduledNodes[i].session = scheduledNodes[j].session
    /\ \A i, j \in Sounding(scheduledNodes) :
          scheduledNodes[i].note = scheduledNodes[j].note => i = j

\* ------------------------------------------------------------------------
\* C2
\* ------------------------------------------------------------------------
\* C2: when the continuation of a play() has scheduled its notes, the key of
\* every note it scheduled is in the cache or was fetched and failed, and
\* no load of that key is running.
C2_ScheduledAfterPreloadSettled ==
    last.op = "resume" =>
        \A n \in Range(scheduledNodes) :
            n.session = last.session =>
                LET k == cacheKeyOf(NoteOf(n.note))
                IN  /\ k \in cache \/ k \in fetched
                    /\ LoadsOf(loads, k) = {}

\* ------------------------------------------------------------------------
\* C3
\* ------------------------------------------------------------------------
\* C3: while a load of key K is running, a play() whose preload needs K
\* issues no further fetch for K and awaits the running load; no key ever has
\* two running loads; and a play() goes on past its preload only when none of
\* the loads it awaits is still running.
C3_OneFetchShared ==
    [][ /\ \A k \in Keys : Cardinality(LoadsOf(loads', k)) <= 1
        /\ \A k \in Keys :
              LoadsOf(loads, k) # {} =>
                /\ LoadsOf(loads', k) \subseteq LoadsOf(loads, k)
                /\ (last'.op = "play" /\ k \in PlayableKeys(notes, startMeasure'))
                      => LoadsOf(loads, k) \subseteq plays'[Len(plays')].jobs
        /\ \A i \in DOMAIN plays :
              plays[i] \notin Range(plays') => plays[i].jobs \cap loads = {}
      ]_vars

\* two suspended play() invocations await the same running load
C3_Witness ==
    \E i, j \in DOMAIN plays :
        /\ i # j
        /\ plays[i].jobs \cap plays[j].jobs \cap loads # {}

\* ------------------------------------------------------------------------
\* C4
\* ------------------------------------------------------------------------
\* C4: a play() called in the playing state has, when it reaches its await,
\* stopped every node, emptied scheduledNodes and left no animation frame
\* registered.
C4_RestartStopsPreviousSession ==
    [][ (last'.op = "play" /\ playing /\ ~loading) =>
            /\ liveNodes' = {}
            /\ scheduledNodes' = <<>>
            /\ animFrame' = 0
            /\ frames' = {}
      ]_vars

\* ------------------------------------------------------------------------
\* C5
\* ------------------------------------------------------------------------
\* C5: every node that was started and not stopped is in scheduledNodes, and
\* when stop() has returned no started node is left and scheduledNodes is
\* empty.
C5_StopHaltsEveryNode ==
    /\ liveNodes \subseteq Range(scheduledNodes)
    /\ StopReturned => liveNodes = {} /\ scheduledNodes = <<>>

\* a stop() of the application has stopped an LFO, a buffer source and a
\* fallback oscillator, all scheduled for later than now
C5_Witness ==
    /\ last.op = "stop"
    /\ last.kinds = {"lfo", "source", "osc"}
    /\ liveNodes = {}

\* ------------------------------------------------------------------------
\* C6
\* ------------------------------------------------------------------------
\* C6: after a tick in which a hook called stop(), the frame of that polling
\* loop is not registered, _animFrame is null, and no {stopped: false} tick
\* was delivered after the {stopped: true} one.
C6_StopFromHookEndsLoop ==
    (last.op = "tick" /\ last.hooks \in {"stopInMeasureChange", "stopInPlaybackTick"}) =>
        /\ \A f \in frames : f.id # last.session
        /\ animFrame = 0
        /\ ~ResumedAfterStopped(last.out)

\* ------------------------------------------------------------------------
\* C7
\* ------------------------------------------------------------------------
\* the fields of the engine the application can read
EngineState ==
    <<playing, loading, scheduledNodes, animFrame, startTime, startMeasure,
      lastPlayMeasure, measureStartTimes, measureSecPerBeat, totalDuration,
      mutedInstruments, soloInstrument, liveNodes, frames>>

\* C7: a stop() called while the engine is idle (no play() in progress, no
\* scheduled node, no frame registered) changes no field of the engine and
\* produces no observable effect: no node is stopped, no hook is called.
C7_IdleStopIsNoOp ==
    [][ (last'.op = "stop" /\ last'.wasQuiet) =>
            /\ UNCHANGED EngineState
            /\ last'.stops = 0
            /\ last'.out = <<>>
      ]_vars

\* ------------------------------------------------------------------------
\* C8
\* ------------------------------------------------------------------------
\* C8: a stop() that directly follows a stop() changes no field of the
\* engine, leaves playing = false, loading = false, scheduledNodes empty and
\* _animFrame null, and stops no node.
C8_StopIdempotent ==
    [][ (last'.op = "stop" /\ last'.again >= 0) =>
            /\ UNCHANGED EngineState
            /\ ~playing' /\ ~loading'
            /\ scheduledNodes' = <<>>
            /\ animFrame' = 0
            /\ last'.stops = 0
      ]_vars

\* a stop() right after a stop() that stopped nodes, while a play() is still
\* suspended or while nothing is left
C8_Witness ==
    /\ last.op = "stop"
    /\ last.again > 0
    /\ last.stops = 0
    /\ ~playing /\ scheduledNodes = <<>>

\* ------------------------------------------------------------------------
\* C9
\* ------------------------------------------------------------------------
\* the latest play() has not gone past its await
PreloadInFlight(suspended, latest) ==
    \E i \in DOMAIN suspended : suspended[i].id = latest

\* C9: no handler takes the engine from idle to playing, loading = true with
\* playing = false never occurs, and loading is true exactly while the engine
\* is not idle and the latest play() is still awaiting its preload.
C9_PhaseFollowsPreload ==
    [][ /\ ~(Phase(playing, loading) = "idle"
               /\ Phase(playing', loading') = "playing")
        /\ ~(loading' /\ ~playing')
        /\ loading' <=> (playing' /\ PreloadInFlight(plays', playCount'))
      ]_vars

Audible(noteList, fromMeasure, solo, muted) ==
    {noteList[i].id : i \in {j \in DOMAIN noteList :
        /\ ~noteList[j].is_rest
        /\ noteList[j].measure >= fromMeasure
        /\ IF solo # "" THEN noteList[j].instrument_id = solo
           ELSE noteList[j].instrument_id \notin muted}}

\* the notes a play() invocation has sounding nodes for
ScheduledBy(nodes, session) ==
    {nodes[i].note : i \in {j \in Sounding(nodes) : nodes[j].session = session}}

\* C11: the continuation of a play(scoreData, fromMeasure) that goes on to
\* schedule gives a sounding node to exactly the non-rest notes at or after
\* fromMeasure of the solo instrument if one is set (muted or not), and of
\* the unmuted instruments otherwise.
C11_SoloBeforeMute ==
    [][ (last'.op = "resume" /\ playing) =>
            ScheduledBy(scheduledNodes', last'.session)
              = Audible(notes, plays[NextReady].fromMeasure,
                        soloInstrument, mutedInstruments)
      ]_vars

\* ------------------------------------------------------------------------
\* C12
\* ------------------------------------------------------------------------
\* C12 as stated: a handler other than a tick of the polling loop (play(),
\* its continuation, stop(), a load settling, a poll) invokes neither
\* onMeasureChange nor onPlaybackTick.
C12_HooksOnlyFromTick ==
    last.op # "tick" => last.out = <<>>

\* C12: outside a tick no onMeasureChange and no onPlaybackTick with
\* stopped: false is delivered; stop(), and play() through the stop() it
\* begins with, deliver one onPlaybackTick({stopped: true}) and nothing else;
\* the other handlers deliver nothing.
C12_OnlyStoppedOutsideTick ==
    /\ last.op \in {"play", "stop"} => last.out = <<StoppedEvent>>
    /\ last.op \notin {"play", "stop", "tick"} => last.out = <<>>

\* a play() called while nodes were scheduled has delivered {stopped: true}
C12_Witness ==
    /\ last.op = "play"
    /\ last.stops > 0
    /\ last.out = <<StoppedEvent>>

\* ------------------------------------------------------------------------
\* C13
\* ------------------------------------------------------------------------
\* C13: a stop() called by the application delivers onPlaybackTick exactly
\* once, with {stopped: true}, and every {stopped: true} call of any handler
\* finds playing = false and none of the scheduled nodes still sounding.
C13_StopNotifiesOnceAfterHalting ==
    /\ last.op = "stop" =>
          /\ last.out = <<StoppedEvent>>
          /\ last.seen # {}
    /\ last.seen \subseteq {[playing |-> FALSE, sounding |-> 0]}

\* a stop() of the application in the playing state: nodes were stopped and
\* the polling loop was cancelled
C13_Witness ==
    /\ last.op = "stop"
    /\ last.stops > 0
    /\ last.again = -1
    /\ last.seen = {[playing |-> FALSE, sounding |-> 0]}
    /\ frames = {}

\* ------------------------------------------------------------------------
\* C14
\* ------------------------------------------------------------------------
\* C14: a tick that reports a position (it delivers onMeasureChange and
\* onPlaybackTick with stopped: false; the reset at the end of the score is
\* not meant) runs in the playing state, belongs to the polling loop of the
\* latest play(), runs while no play() is awaiting its preload, and delivers
\* nothing with stopped: false once {stopped: true} has been delivered.
C14_TicksOnlyWhilePlaying ==
    [][ (last'.op = "tick" /\ last'.out # <<>> /\ last'.out[1] # StoppedEvent) =>
            /\ Phase(playing, loading) = "playing"
            /\ plays = <<>>
            /\ last'.session = playCount
            /\ ~ResumedAfterStopped(last'.out)
      ]_vars

\* ------------------------------------------------------------------------
\* C15
\* ------------------------------------------------------------------------
\* the measure a tick reported through onPlaybackTick({stopped: false})
ReportsMeasure(out, m) ==
    \E e \in Range(out) : e.cb = "onPlaybackTick" /\ ~e.stopped /\ e.measure = m

\* C15: when two ticks of one polling loop follow each other and the second
\* finds the playhead in the measure the first one announced, the second
\* does not invoke onMeasureChange.
C15_MeasureChangeOnlyOnChange ==
    [][ ( /\ last.op = "tick" /\ last'.op = "tick"
          /\ last.session = last'.session
          /\ last.out # <<>> /\ last.out[1].cb = "onMeasureChange"
          /\ ReportsMeasure(last'.out, last.out[1].measure) ) =>
            \A e \in Range(last'.out) : e.cb # "onMeasureChange"
      ]_vars

\* ------------------------------------------------------------------------
\* C16
\* ------------------------------------------------------------------------
\* the overrides of the score (none if the list is missing)
OverridesOf(meta) ==
    IF "measureSignatures" \in DOMAIN meta THEN meta.measureSignatures ELSE <<>>

\* the value of field in the override with the greatest measure <= m among
\* those that set it, base if there is none
LatestSetting(list, m, field, unset, base) ==
    LET setters == {i \in DOMAIN list :
                        list[i].measure <= m /\ list[i][field] # unset}
    IN  IF setters = {} THEN base
        ELSE list[CHOOSE i \in setters :
                    \A j \in setters : list[j].measure <= list[i].measure][field]

C17_NoOverridesGiveBase ==
    (resolved.measure # 0 /\ OverridesOf(scoreMeta) = <<>>) =>
        resolved.sig = [key |-> scoreMeta.score.key_signature,
                        time |-> scoreMeta.score.time_signature,
                        tempo |-> scoreMeta.score.tempo]

\* a measure after the first resolved on a score without the list
C17_Witness ==
    /\ "measureSignatures" \notin DOMAIN scoreMeta
    /\ resolved.measure > 1
    /\ resolved.sig.tempo = 100

\* ------------------------------------------------------------------------
\* C18
\* ------------------------------------------------------------------------
\* C18: whatever the tempo field of one override is changed to (set, or
\* unset), getEffectiveSignature returns the same key and the same time
\* signature as before, for the measure resolved.
C18_TempoLeavesKeyAndTime ==
    resolved.measure # 0 =>
        \A i \in DOMAIN OverridesOf(scoreMeta), t \in {0, 90, 120} :
            LET other == [scoreMeta EXCEPT !.measureSignatures[i].tempo = t]
                sig == getEffectiveSignature(resolved.measure, other)
            IN  /\ sig.key = resolved.sig.key
                /\ sig.time = resolved.sig.time

\* the measure resolved takes key, time and tempo from overrides, one of
\* which sets the tempo and the time signature and another one the key
C18_Witness ==
    /\ resolved.sig = [key |-> "G", time |-> <<3, 4>>, tempo |-> 120]
    /\ \E i, j \in DOMAIN OverridesOf(scoreMeta) :
          /\ i # j
          /\ scoreMeta.measureSignatures[i].tempo = 120
          /\ scoreMeta.measureSignatures[i].time_signature = <<3, 4>>
          /\ scoreMeta.measureSignatures[i].key_signature = ""
          /\ scoreMeta.measureSignatures[j].key_signature = "G"
          /\ scoreMeta.measureSignatures[j].tempo = 0

\* ------------------------------------------------------------------------
\* C20
\* ------------------------------------------------------------------------
\* beats of measure m times 60 / tempo of measure m (in centiseconds), both
\* taken from the latest override at or before m that sets them
MeasureDuration(meta, m) ==
    LatestSetting(OverridesOf(meta), m, "time_signature", <<>>,
                  meta.score.time_signature)[1]
      * (6000 \div LatestSetting(OverridesOf(meta), m, "tempo", 0,
                                 meta.score.tempo))

RECURSIVE SumDurations(_, _, _)
SumDurations(meta, first, lastM) ==
    IF first > lastM THEN 0
    ELSE MeasureDuration(meta, first) + SumDurations(meta, first + 1, lastM)

\* beatsInMeasure(m) x 60/tempo(m) in doubles, from measure m's own settings
SecondsOf(meta, m) ==
    DblTimes(LatestSetting(OverridesOf(meta), m, "time_signature", <<>>,
                           meta.score.time_signature)[1],
             DblDiv(60, LatestSetting(OverridesOf(meta), m, "tempo", 0,
                                      meta.score.tempo)))

\* one unit in the last place of the double x
Ulp(x) == Dbl(0, 2^ExcessBits(x))

TablesBuilt == last.op = "resume" /\ playing

\* C20 as stated: in the tables play(scoreData, fromMeasure) has built, the
\* start of fromMeasure is 0, start[m+1] - start[m] is equal to measure m's
\* beats x 60/tempo, the starts increase strictly and totalDuration is the
\* sum of the measure durations.  The values are the doubles of the code.
C20_DifferenceIsDuration ==
    TablesBuilt =>
        /\ last.seconds[startMeasure] = Dbl(0, 0)
        /\ \A m \in startMeasure..(lastPlayMeasure - 1) :
              /\ DblSub(last.seconds[m + 1], last.seconds[m])
                    = SecondsOf(scoreMeta, m)
              /\ last.seconds[m] # last.seconds[m + 1]
              /\ DblLeq(last.seconds[m], last.seconds[m + 1])

\* C20, amended: when the continuation of play(scoreData, fromMeasure) has
\* built its tables, they cover fromMeasure..lastPlayableMeasure, the start
\* of fromMeasure is 0, the starts increase strictly, and each next start is
\* the previous one plus that measure's own beats x 60/tempo, totalDuration
\* being the sum of all of them: exactly so in exact arithmetic, and in the
\* doubles of the code start[m+1] is the rounded sum start[m] + duration(m),
\* so that start[m+1] - start[m] is within one unit in the last place of
\* start[m+1] of the duration.
C20_CumulativeStartTimes ==
    TablesBuilt =>
        /\ DOMAIN measureStartTimes = startMeasure..lastPlayMeasure
        /\ lastPlayMeasure = lastNotesMeasureOf(notes, startMeasure)
        /\ measureStartTimes[startMeasure] = 0
        /\ \A m \in startMeasure..(lastPlayMeasure - 1) :
              /\ measureStartTimes[m + 1] - measureStartTimes[m]
                    = MeasureDuration(scoreMeta, m)
              /\ measureStartTimes[m] < measureStartTimes[m + 1]
        /\ totalDuration = SumDurations(scoreMeta, startMeasure, lastPlayMeasure)
        /\ DOMAIN last.seconds = startMeasure..(lastPlayMeasure + 1)
        /\ last.seconds[startMeasure] = Dbl(0, 0)
        /\ \A m \in startMeasure..lastPlayMeasure :
              /\ last.seconds[m + 1]
                    = DblAdd(last.seconds[m], SecondsOf(scoreMeta, m))
              /\ DblLeq(DblGap(DblSub(last.seconds[m + 1], last.seconds[m]),
                               SecondsOf(scoreMeta, m)),
                        Ulp(last.seconds[m + 1]))
              /\ last.seconds[m] # last.seconds[m + 1]
              /\ DblLeq(last.seconds[m], last.seconds[m + 1])

\* tables of a play from measure 2 over measures in 4/4 at 100 BPM and in
\* 3/4 at 120 BPM, one of the differences not being the duration in doubles
C20_Witness ==
    /\ TablesBuilt
    /\ startMeasure = 2
    /\ \E m, k \in startMeasure..(lastPlayMeasure - 1) :
          /\ measureStartTimes[m + 1] - measureStartTimes[m] = 4 * 60
          /\ measureStartTimes[k + 1] - measureStartTimes[k] = 3 * 50
    /\ \E m \in startMeasure..(lastPlayMeasure - 1) :
          DblSub(last.seconds[m + 1], last.seconds[m]) # SecondsOf(scoreMeta, m)

\* ------------------------------------------------------------------------
\* C21
\* ------------------------------------------------------------------------
\* the buffer source or oscillator scheduled for the note
SoundOf(note) ==
    {scheduledNodes[i] : i \in {j \in Sounding(scheduledNodes) :
                                    scheduledNodes[j].note = note.id}}

\* the measure is in 4/4 at 120 BPM
CommonTimeAt120(meta, m) ==
    /\ LatestSetting(OverridesOf(meta), m, "tempo", 0, meta.score.tempo) = 120
    /\ LatestSetting(OverridesOf(meta), m, "time_signature", <<>>,
                     meta.score.time_signature) = <<4, 4>>

\* C21: every note the continuation of play() has scheduled starts at
\* startTime + SCHEDULE_AHEAD + measureStartTimes[note.measure]
\* + (note.beat - 1) x measureSecPerBeat[note.measure], both table entries
\* being those of the note's own measure; a note at beat 2.5 of measure 1 in
\* 4/4 at 120 BPM, played from measure 1, starts 0.75 s after
\* startTime + SCHEDULE_AHEAD.
C21_NoteStartTimes ==
    TablesBuilt =>
        \A note \in Range(notes) : \A n \in SoundOf(note) :
            /\ note.measure \in DOMAIN measureStartTimes
            /\ note.measure \in DOMAIN measureSecPerBeat
            /\ 2 * (n.at - startTime - SCHEDULE_AHEAD
                      - measureStartTimes[note.measure])
                  = (note.beat - Beat(1, 0)) * measureSecPerBeat[note.measure]
            /\ (/\ startMeasure = 1 /\ note.measure = 1
                /\ note.beat = Beat(2, 1)
                /\ CommonTimeAt120(scoreMeta, 1))
                  => n.at = startTime + SCHEDULE_AHEAD + 75

\* the session started after the clock had run on; the note at beat 2.5 of
\* measure 1 (4/4, 120 BPM) and a note at a later beat of a later measure
\* are both scheduled
C21_Witness ==
    /\ TablesBuilt
    /\ startMeasure = 1 /\ startTime > 0
    /\ CommonTimeAt120(scoreMeta, 1)
    /\ \E note \in Range(notes) :
          /\ note.measure = 1 /\ note.beat = Beat(2, 1)
          /\ \E n \in SoundOf(note) : n.at = startTime + SCHEDULE_AHEAD + 75
    /\ \E note \in Range(notes) :
          /\ note.measure > 1 /\ note.beat > Beat(1, 0)
          /\ \E n \in SoundOf(note) :
                n.at > startTime + SCHEDULE_AHEAD + measureStartTimes[note.measure]

\* ------------------------------------------------------------------------
\* C22
\* ------------------------------------------------------------------------
\* the keys as often as the handler fetched them
NoKeyTwice(keys) == \A i, j \in DOMAIN keys : keys[i] = keys[j] => i = j

\* the keys whose fetch the play() call made and that had failed when the
\* call returned
FailedInCall(keys, running) ==
    {keys[i] : i \in DOMAIN keys} \ {job[1] : job \in running}

\* C22: a load of key K that fails changes nothing in the cache, leaves K
\* absent from it and removes K from _pending; fetch is called only by
\* play() (through preload) and at most once per key in one call; and the
\* continuation of a play() runs when all loads it awaits have settled and
\* then goes on to the playing state, whether they failed or not.
C22_FailedLoadTolerated ==
    [][ /\ last'.op = "loadFailed" =>
              /\ cache' = cache
              /\ \A job \in loads \ loads' :
                    job[1] \notin cache' /\ pending'[job[1]] = 0
        /\ last'.op = "play" =>
              \A k \in FailedInCall(last'.fetches, loads') :
                    k \notin cache' /\ pending'[k] = 0
        /\ last'.fetches # <<>> =>
              last'.op = "play" /\ NoKeyTwice(last'.fetches)
        /\ (last'.op = "resume" /\ playing) =>
              /\ plays[NextReady].jobs \cap loads = {}
              /\ playing' /\ ~loading' /\ last'.graphs = 1
      ]_vars

\* ------------------------------------------------------------------------
\* C29
\* ------------------------------------------------------------------------
\* C29: a key is in _pending exactly while a load of it is running, so
\* _pending is empty when no load runs; and a play() that needs a key which
\* is neither cached nor being loaded calls fetch for it.
C29_PendingWhileUnsettled ==
    [][ /\ \A k \in Keys : pending'[k] # 0 <=> LoadsOf(loads', k) # {}
        /\ last'.op = "play" =>
              \A k \in PlayableKeys(notes, startMeasure') :
                  (k \notin cache /\ LoadsOf(loads, k) = {})
                      => \E i \in DOMAIN last'.fetches : last'.fetches[i] = k
      ]_vars

\* ------------------------------------------------------------------------
\* C23
\* ------------------------------------------------------------------------
\* the notes the scheduling loop passes on: no rests, none before
\* fromMeasure, with a solo instrument only its notes, and no muted ones
Filtered(noteList, fromMeasure, solo, muted) ==
    {noteList[i] : i \in {j \in DOMAIN noteList :
        /\ ~noteList[j].is_rest
        /\ noteList[j].measure >= fromMeasure
        /\ solo = "" \/ noteList[j].instrument_id = solo
        /\ noteList[j].instrument_id \notin muted}}

\* the buffer sources and oscillators a play() invocation has scheduled
SourcesOf(nodes, session) ==
    {i \in Sounding(nodes) : nodes[i].session = session}

\* C23: the continuation of a play() that goes on to schedule gives every
\* note that passes the filter exactly one sound source, a buffer source if
\* the cache holds the sample of the note's key and a sine oscillator if not,
\* and schedules no other sound source: as many as there are filtered notes.
C23_OneSourcePerFilteredNote ==
    [][ (last'.op = "resume" /\ playing) =>
            LET mine == SourcesOf(scheduledNodes', last'.session)
                filtered == Filtered(notes, plays[NextReady].fromMeasure,
                                     soloInstrument, mutedInstruments)
            IN  /\ Cardinality(mine) = Cardinality(filtered)
                /\ \A note \in filtered :
                      \E i \in mine :
                          /\ scheduledNodes'[i].note = note.id
                          /\ scheduledNodes'[i].kind =
                                IF cacheKeyOf(note) \in cache THEN "source"
                                ELSE "osc"
                          /\ \A j \in mine :
                                scheduledNodes'[j].note = note.id => j = i
      ]_vars

\* a continuation has scheduled a buffer source for one note and, its sample
\* missing, an oscillator for another, a third note being filtered out
C23_Witness ==
    /\ last.op = "resume" /\ playing
    /\ {scheduledNodes[i].kind : i \in SourcesOf(scheduledNodes, last.session)}
          = {"source", "osc"}
    /\ \E n \in Range(notes) :
          /\ ~n.is_rest
          /\ n.id \notin ScheduledBy(scheduledNodes, last.session)

\* ------------------------------------------------------------------------
\* C24
\* ------------------------------------------------------------------------
\* the keys a handler called fetch for
FetchedBy(handler) == {handler.fetches[i] : i \in DOMAIN handler.fetches}

\* C24: no handler removes a key from the cache; a load that ends with
\* storing its sample stores it for a key that was not in the cache; and
\* fetch is never called for a key that is in the cache, nor for one that is
\* being loaded.
C24_CacheWriteOnce ==
    [][ /\ cache \subseteq cache'
        /\ last'.op = "loaded" =>
              \A job \in loads \ loads' :
                  job[1] \notin cache /\ job[1] \in cache'
        /\ \A k \in FetchedBy(last') :
              k \notin cache /\ LoadsOf(loads, k) = {}
      ]_vars

\* a play() that needs two keys, one loaded successfully for an earlier
\* play(), fetches only the other one
C24_Witness ==
    /\ last.op = "play"
    /\ Len(last.fetches) = 1
    /\ \E k \in PlayableKeys(notes, startMeasure) :
          k \in cache /\ k \notin FetchedBy(last)

\* ------------------------------------------------------------------------
\* C25
\* ------------------------------------------------------------------------
\* the LFO nodes scheduled for the note
LfosOf(note) ==
    {i \in DOMAIN scheduledNodes :
        scheduledNodes[i].kind = "lfo" /\ scheduledNodes[i].note = note.id}

\* the note's duration in centiseconds at the tempo of its own measure
DurationOf(meta, note) ==
    LET beats4 == CASE note.duration = "whole" -> 16
                    [] note.duration = "half" -> 8
                    [] note.duration = "quarter" -> 4
                    [] note.duration = "eighth" -> 2
                    [] OTHER -> 1
    IN  (beats4 * (6000 \div LatestSetting(OverridesOf(meta), note.measure,
                                           "tempo", 0, meta.score.tempo))) \div 4

\* C25: a note the continuation of play() has scheduled has an LFO if and
\* only if its vibrato flag is set, whether it plays from a sample or from
\* the fallback oscillator; the LFO starts with the note, its depth is 0 at
\* the start of the note and reaches the full depth (greater than 0) only
\* min(0.4 s, half the duration) later, which is strictly later.
C25_VibratoOnlyWhenSet ==
    TablesBuilt =>
        \A note \in Range(notes) :
            /\ SoundOf(note) = {} => LfosOf(note) = {}
            /\ \A n \in SoundOf(note) :
                  /\ note.vibrato = 1 <=> LfosOf(note) # {}
                  /\ Cardinality(LfosOf(note)) <= 1
                  /\ \A i \in LfosOf(note) :
                        LET lfo == scheduledNodes[i]
                        IN  /\ lfo.at = n.at
                            /\ lfo.ramp.v0 = 0 /\ lfo.ramp.t0 = n.at
                            /\ lfo.ramp.v1 = IF n.kind = "source" THEN 12 ELSE 3
                            /\ lfo.ramp.t1 - n.at
                                  = Min(40, DurationOf(scoreMeta, note) \div 2)
                            /\ lfo.ramp.t1 > lfo.ramp.t0

\* a half note with vibrato plays from the fallback oscillator, its LFO
\* reaching full depth 0.4 s after the start, beside a note without vibrato
\* that has no LFO
C25_Witness ==
    /\ TablesBuilt
    /\ \E note \in Range(notes) :
          /\ note.vibrato = 1
          /\ \E n \in SoundOf(note) : n.kind = "osc"
          /\ \E i \in LfosOf(note) :
                /\ scheduledNodes[i].ramp.v1 = 3
                /\ scheduledNodes[i].ramp.t1 = scheduledNodes[i].ramp.t0 + 40
    /\ \E note \in Range(notes) :
          note.vibrato = 0 /\ SoundOf(note) # {} /\ LfosOf(note) = {}

\* ------------------------------------------------------------------------
\* C26
\* ------------------------------------------------------------------------
\* the rows of the note the request names that carry the request's session_id
OwnedRows(rows, request) ==
    {r \in rows : r.id = request[1].num /\ r.session_id = request[2]}

\* C26: DELETE /api/notes/:id removes only the note of that id, and only if
\* the session_id stored with it is the one of the request; when the note
\* does not exist or carries another session_id than the request (or the
\* request carries none), the answer is 404 and the table is unchanged.
C26_DeleteOnlyOwnNote ==
    [][ response'.op = "DELETE /api/notes" =>
            /\ notes_table \ notes_table' \subseteq OwnedRows(notes_table, response'.args)
            /\ notes_table' \subseteq notes_table
            /\ OwnedRows(notes_table, response'.args) = {} =>
                  /\ response'.status = 404
                  /\ notes_table' = notes_table
      ]_vars

\* ------------------------------------------------------------------------
\* C27
\* ------------------------------------------------------------------------
\* tempo is NULL or a number within [20, 300]
TempoInRange(tempo) ==
    \/ tempo = JsNull
    \/ tempo.type = "number" /\ tempo.num >= 20 /\ tempo.num <= 300

\* C27: after every PUT and DELETE /api/measure-signature/:measure request
\* no two stored overrides have the same measure, every stored override has
\* a measure within 1..total_measures and a tempo that is NULL or within
\* [20, 300], and a request that is not accepted is answered with 400 and
\* leaves the table unchanged.
C27_StoredOverridesValid ==
    [][ /\ \A r1, r2 \in measure_signatures' :
              r1.measure = r2.measure => r1 = r2
        /\ \A r \in measure_signatures' :
              /\ r.measure >= 1 /\ r.measure <= total_measures
              /\ TempoInRange(r.tempo)
        /\ response'.status # 200 =>
              /\ response'.status = 400
              /\ measure_signatures' = measure_signatures
      ]_vars

\* ------------------------------------------------------------------------
\* C28
\* ------------------------------------------------------------------------
\* the {stopped: false} events among the callbacks delivered
Reports(out) ==
    {out[i] : i \in {j \in DOMAIN out :
        out[j].cb = "onPlaybackTick" /\ ~out[j].stopped}}

\* the cumulative start of measure m in the table
StartOf(table, m) == IF m \in DOMAIN table THEN table[m] ELSE 0

\* C28: the measure a tick reports with {stopped: false} lies within
\* startMeasure..lastPlayMeasure, its cumulative start is at most elapsed,
\* and no later measure of that range has a start that is at most elapsed;
\* the audio clock never runs backwards and only play() and its
\* continuation change the range, the table and the start time, so that the
\* measures reported over one session never decrease.
C28_ReportsLatestStartedMeasure ==
    [][ /\ last'.op = "tick" =>
              \A e \in Reports(last'.out) :
                  LET elapsed == now - startTime
                  IN  /\ e.measure \in startMeasure..lastPlayMeasure
                      /\ StartOf(measureStartTimes, e.measure) <= elapsed
                      /\ \A m \in (e.measure + 1)..lastPlayMeasure :
                            StartOf(measureStartTimes, m) > elapsed
        /\ now' >= now
        /\ last'.op \notin {"play", "resume"} =>
              UNCHANGED <<measureStartTimes, startMeasure, lastPlayMeasure, startTime>>
      ]_vars

\* ------------------------------------------------------------------------
\* C30
\* ------------------------------------------------------------------------
\* the notes of the batch play(scoreData, fromMeasure) hands to preload
Batch(noteList, fromMeasure) ==
    {n \in Range(noteList) : ~n.is_rest /\ n.measure >= fromMeasure}

\* C30: the preload of one play() calls fetch for no key twice; every key
\* it fetches is the (sound source, sample name) of a note of the batch that
\* is not a rest, is spelled without a sharp, and was not in the cache; and
\* two notes of the batch on the same sound source whose pitches are the
\* same or a black key spelled once with a sharp and once with a flat
\* account for one key.
C30_OneFetchPerKey ==
    [][ last'.op = "play" =>
          /\ NoKeyTwice(last'.fetches)
          /\ \A k \in FetchedBy(last') :
                /\ \E n \in Batch(notes, startMeasure') :
                      /\ k[1] = INST_TO_SOUNDFONT(n.instrument_id)
                      /\ k[2][3] = n.pitch[3]
                /\ k[2][2] # "#"
                /\ k \notin cache
          /\ \A n1, n2 \in Batch(notes, startMeasure') :
                /\ INST_TO_SOUNDFONT(n1.instrument_id) = INST_TO_SOUNDFONT(n2.instrument_id)
                /\ n1.pitch[3] = n2.pitch[3]
                /\ \/ n1.pitch = n2.pitch
                   \/ /\ n1.pitch[2] = "#" /\ n2.pitch[2] = "b"
                      /\ SHARP_TO_FLAT(n1.pitch[1]) = n2.pitch[1]
                => Cardinality({k \in FetchedBy(last') :
                       k[1] = INST_TO_SOUNDFONT(n1.instrument_id)
                       /\ k[2][3] = n1.pitch[3]
                       /\ k[2][1] \in {n1.pitch[1], n2.pitch[1]}}) <= 1
      ]_vars

\* a play() whose batch holds C#4 of violin1 and Db4 of violin2 (and whose
\* note list holds a rest) has fetched the violin sample Db4 once, and
\* another key already in the cache not at all
C30_Witness ==
    /\ last.op = "play"
    /\ \E n1, n2 \in Batch(notes, startMeasure) :
          /\ n1.instrument_id = "violin1" /\ n1.pitch = Pitch("C", "#", 4)
          /\ n2.instrument_id = "violin2" /\ n2.pitch = Pitch("D", "b", 4)
    /\ \E n \in Range(notes) : n.is_rest /\ n.measure >= startMeasure
    /\ last.fetches = << <<"violin", Pitch("D", "b", 4)>> >>
    /\ \E k \in PlayableKeys(notes, startMeasure) : k \in cache

\* ------------------------------------------------------------------------
\* C31
\* ------------------------------------------------------------------------
\* the lists with the same overrides as list, in every order
Reordered(list) ==
    {[i \in DOMAIN list |-> list[p[i]]] :
        p \in {q \in [DOMAIN list -> DOMAIN list] :
                  \A i, j \in DOMAIN list : q[i] = q[j] => i = j}}

\* C31: getEffectiveSignature returns for the measure resolved the same
\* key, time and tempo whatever the order of the override list, each field
\* being the value of the override with the greatest measure at or before
\* the measure among those that set it.
C31_OrderOfOverridesIrrelevant ==
    resolved.measure # 0 =>
        LET list == OverridesOf(scoreMeta)
            m == resolved.measure
        IN  /\ \A other \in Reordered(list) :
                  getEffectiveSignature(m,
                      [scoreMeta EXCEPT !.measureSignatures = other])
                    = resolved.sig
            /\ resolved.sig.key
                 = LatestSetting(list, m, "key_signature", "",
                                 scoreMeta.score.key_signature)
            /\ resolved.sig.tempo
                 = LatestSetting(list, m, "tempo", 0, scoreMeta.score.tempo)

\* ------------------------------------------------------------------------
\* C32
\* ------------------------------------------------------------------------
\* the handler was the tick that found the end of the score
EndOfPlayback(handler) ==
    /\ handler.op = "tick"
    /\ handler.out = <<StoppedEvent, MeasureEvent(startMeasure)>>

\* C32: a play() that got past its preload and is left alone (the clock
\* runs, the frames fire, no stop() and no other play()) leads to a tick
\* that leaves the engine idle and delivers onMeasureChange(startMeasure);
\* once the engine is idle again no handler delivers onMeasureChange and
\* the engine stays idle, so that the end is reported once.
C32_PlaybackEnds ==
    /\ (playing /\ ~loading) ~> (~playing /\ EndOfPlayback(last))
    /\ [][ (~playing /\ playCount = 1 /\ plays = <<>>) =>
              /\ ~playing'
              /\ \A i \in DOMAIN last'.out : last'.out[i].cb # "onMeasureChange"
         ]_vars

\* the session that started at measure 2 has ended by itself: the engine
\* is idle, no frame is registered, and the last handler was its end tick
C32_Witness ==
    /\ EndOfPlayback(last)
    /\ startMeasure = 2
    /\ playCount = 1
    /\ ~playing /\ frames = {} /\ animFrame = 0
    /\ now - startTime >= totalDuration + SCHEDULE_AHEAD

\* ------------------------------------------------------------------------
\* C33
\* ------------------------------------------------------------------------
\* C33: only play() makes the engine playing and stop() leaves it idle, so
\* after a stop() during the preload, with no later play(), the continuation
\* finds it idle; a continuation that finds the engine idle builds no audio
\* graph, schedules no node, registers no frame, calls no hook and leaves
\* the engine idle with scheduledNodes empty.
C33_StoppedWhileLoading ==
    [][ /\ (~playing /\ playing') => last'.op = "play"
        /\ last'.op = "stop" => ~playing' /\ scheduledNodes' = <<>>
        /\ (last'.op = "resume" /\ ~playing) =>
              /\ ~playing' /\ ~loading'
              /\ last'.graphs = 0
              /\ last'.out = <<>>
              /\ scheduledNodes = <<>> /\ scheduledNodes' = <<>>
              /\ liveNodes' = liveNodes
              /\ frames' = frames /\ animFrame' = animFrame
              /\ UNCHANGED <<startTime, measureStartTimes, totalDuration>>
      ]_vars

\* the only play() so far was stopped during its preload and has now
\* returned: nothing is scheduled and no frame is registered
C33_Witness ==
    /\ last.op = "resume"
    /\ playCount = 1 /\ plays = <<>>
    /\ ~playing
    /\ last.graphs = 0
    /\ scheduledNodes = <<>> /\ frames = {}
    /\ fetched # {}

\* ------------------------------------------------------------------------
\* C34
\* ------------------------------------------------------------------------
\* C34: between two handlers, whenever the engine is idle, scheduledNodes
\* is empty, _animFrame is null and no frame of a polling loop is
\* registered with the browser.
C34_IdleMeansTornDown ==
    ~playing =>
        /\ scheduledNodes = <<>>
        /\ animFrame = 0
        /\ frames = {}

\* ------------------------------------------------------------------------
\* C35
\* ------------------------------------------------------------------------
\* C35: at most one frame of a polling loop is registered with the browser,
\* and the one that is registered is the one _animFrame records.
C35_OnePollingLoop ==
    /\ Cardinality(frames) <= 1
    /\ \A f \in frames : f.id = animFrame

\* ------------------------------------------------------------------------
\* C36
\* ------------------------------------------------------------------------
\* C36: the beatFraction elapsedInMeasure / secPerMeasure of every
\* {stopped: false} event a tick delivers is at least 0 and less than 1.
C36_BeatFractionInsideMeasure ==
    [][ last'.op = "tick" =>
            \A e \in Reports(last'.out) :
                /\ e.den > 0
                /\ 0 <= e.num
                /\ e.num < e.den
      ]_vars

\* ------------------------------------------------------------------------
\* C37
\* ------------------------------------------------------------------------
\* the automation times of the envelope never go back
NonDecreasing(times) ==
    \A i \in 1..(Len(times) - 1) : times[i] <= times[i + 1]

\* C37: for every buffer source and every fallback oscillator scheduled,
\* the automation events of its gain envelope are issued at non-decreasing
\* times, all within [startTime, startTime + duration]; on the sample path
\* startTime < sustainStart <= releaseStart < startTime + duration.
C37_EnvelopeInsideNote ==
    \A i \in DOMAIN scheduledNodes :
        LET n == scheduledNodes[i]
            first == n.at * EnvUnit
            end == (n.at + DurationOf(scoreMeta, NoteOf(n.note))) * EnvUnit
        IN  n.kind \in {"source", "osc"} =>
                /\ NonDecreasing(n.env)
                /\ \A j \in DOMAIN n.env : first <= n.env[j] /\ n.env[j] <= end
                /\ n.kind = "source" =>
                      /\ first < n.env[2]
                      /\ n.env[2] <= n.env[4]
                      /\ n.env[4] < end

\* ------------------------------------------------------------------------
\* C38
\* ------------------------------------------------------------------------
\* C38: the answer to GET /api/notes/since/<lastFetchTime> holds every note
\* stored after the instant lastFetchTime was taken, and the local note
\* list never holds two notes with one id.
C38_NotesSinceLastFetch ==
    [][ /\ response'.op = "GET /api/notes/since" /\ response.op = "" =>
              \A r \in notes_table :
                  Later(InstantOf(r.created_at), InstantOf(lastFetchTime))
                      => r.note \in Range(response'.args)
        /\ \A i, j \in DOMAIN notes' : notes'[i].id = notes'[j].id => i = j
      ]_vars

====
